---- MODULE Spec2Model ----
(***************************************************************************)
(* The stochastic optimizer of QUEENS                                      *)
(* (src/queens/stochastic_optimizers/_stochastic_optimizer.py) as a state  *)
(* machine.                                                                *)
(*                                                                         *)
(* Numbers.  The program computes with IEEE doubles.  The model computes   *)
(* with a small float format of the same shape: a finite value is an       *)
(* integer number of 1/Scale units with magnitude at most FMax, every      *)
(* operation rounds its exact result to the nearest unit (half away from   *)
(* zero), a result beyond FMax overflows to an infinity, and NaN is        *)
(* produced and propagated as IEEE does.  Signed zeros are not kept.       *)
(* Python's None is the value None for a scalar attribute and the empty    *)
(* tuple for an array attribute.                                           *)
(***************************************************************************)
EXTENDS Integers, Sequences, FiniteSets, TLC

\* Resolution of the float format: 1.0 is Scale units.
Scale == 5000
\* Largest finite magnitude of the float format, in units (40.0).
FMax == 200000

PInf == FMax + 1
NInf == 0 - (FMax + 1)
NaN == FMax + 2
None == FMax + 3

IsNaN(a) == a = NaN
IsInf(a) == a = PInf \/ a = NInf
IsFinite(a) == a >= 0 - FMax /\ a <= FMax
Abs(n) == IF n < 0 THEN 0 - n ELSE n
Sgn(a) == IF a < 0 THEN 0 - 1 ELSE IF a > 0 THEN 1 ELSE 0
\* The float nearest to the integer number of units n (overflow to an infinity).
Fit(n) == IF n > FMax THEN PInf ELSE IF n < 0 - FMax THEN NInf ELSE n
\* A decimal constant num/den of the program as a float.
Lit(num, den) == ((2 * num * Scale) + den) \div (2 * den)

\* IEEE negation.
FNeg(a) == IF IsNaN(a) THEN NaN ELSE 0 - a
\* IEEE absolute value.
FAbs(a) == IF IsNaN(a) THEN NaN ELSE Abs(a)
\* IEEE addition.
FAdd(a, b) ==
    IF IsNaN(a) \/ IsNaN(b) THEN NaN
    ELSE IF IsInf(a) /\ IsInf(b) THEN (IF a = b THEN a ELSE NaN)
    ELSE IF IsInf(a) THEN a
    ELSE IF IsInf(b) THEN b
    ELSE Fit(a + b)
\* IEEE subtraction.
FSub(a, b) == FAdd(a, FNeg(b))
\* Smallest product of magnitudes, in 1/Scale^2 units, that rounds beyond FMax.
OverflowAt == (FMax * Scale) + ((Scale + 1) \div 2)
\* n / d rounded to the nearest integer (half up), for n >= 0 and d > 0.
RoundDiv(n, d) == LET q == n \div d IN IF 2 * (n % d) >= d THEN q + 1 ELSE q
\* IEEE multiplication.
FMul(a, b) ==
    IF IsNaN(a) \/ IsNaN(b) THEN NaN
    ELSE IF IsInf(a) \/ IsInf(b) THEN
        (IF a = 0 \/ b = 0 THEN NaN ELSE IF Sgn(a) = Sgn(b) THEN PInf ELSE NInf)
    ELSE IF a = 0 \/ b = 0 THEN 0
    ELSE IF Abs(b) > (OverflowAt - 1) \div Abs(a) THEN
        (IF Sgn(a) = Sgn(b) THEN PInf ELSE NInf)
    ELSE Sgn(a) * Sgn(b) * RoundDiv(Abs(a) * Abs(b), Scale)
\* IEEE division (numpy: x / 0 is an infinity, 0 / 0 is NaN, no exception).
FDiv(a, b) ==
    IF IsNaN(a) \/ IsNaN(b) THEN NaN
    ELSE IF IsInf(a) THEN
        (IF IsInf(b) THEN NaN ELSE IF Sgn(a) * (IF b < 0 THEN 0 - 1 ELSE 1) > 0 THEN PInf ELSE NInf)
    ELSE IF IsInf(b) THEN 0
    ELSE IF b = 0 THEN (IF a = 0 THEN NaN ELSE IF a > 0 THEN PInf ELSE NInf)
    ELSE LET q == RoundDiv(Abs(a) * Scale, Abs(b))
         IN  Fit(Sgn(a) * Sgn(b) * q)
RECURSIVE Isqrt(_)
\* Floor of the square root of the natural number n.
Isqrt(n) ==
    IF n < 2 THEN n
    ELSE LET s == 2 * Isqrt(n \div 4)
         IN  IF (s + 1) * (s + 1) > n THEN s ELSE s + 1
\* IEEE square root (x ** 0.5).
FSqrt(a) ==
    IF IsNaN(a) \/ a < 0 THEN NaN
    ELSE IF a = PInf THEN PInf
    ELSE LET n == a * Scale
             r == Isqrt(n)
         IN  IF n - (r * r) > r THEN r + 1 ELSE r
\* IEEE comparisons: every comparison with NaN is false.
FLe(a, b) == ~IsNaN(a) /\ ~IsNaN(b) /\ a <= b
FGt(a, b) == ~IsNaN(a) /\ ~IsNaN(b) /\ a > b
\* The Python integer n as a float.
OfInt(n) == Fit(n * Scale)


(***************************************************************************)
(* Arrays: a numpy array of rank 1 is a non-empty tuple of floats.         *)
(***************************************************************************)
NoArray == <<>>
\* numpy broadcasting of two rank-1 shapes.
Broadcastable(a, b) == Len(a) = Len(b) \/ Len(a) = 1 \/ Len(b) = 1
BLen(a, b) == IF Len(a) >= Len(b) THEN Len(a) ELSE Len(b)
At(a, i) == IF Len(a) = 1 THEN a[1] ELSE a[i]
VAdd(a, b) == [i \in 1..BLen(a, b) |-> FAdd(At(a, i), At(b, i))]
VSub(a, b) == [i \in 1..BLen(a, b) |-> FSub(At(a, i), At(b, i))]
\* scalar * array
VScale(c, a) == [i \in 1..Len(a) |-> FMul(c, a[i])]
\* array / scalar
VDivS(a, c) == [i \in 1..Len(a) |-> FDiv(a[i], c)]
AnyNaN(a) == \E i \in 1..Len(a) : IsNaN(a[i])
RECURSIVE FSum(_)
\* np.sum of an array, added left to right.
FSum(a) == IF Len(a) = 0 THEN 0 ELSE FAdd(FSum(SubSeq(a, 1, Len(a) - 1)), a[Len(a)])
\* np.nan_to_num: NaN becomes 0, an infinity the largest finite float of its sign.
NanToNum1(x) == IF IsNaN(x) THEN 0 ELSE IF x = PInf THEN FMax ELSE IF x = NInf THEN 0 - FMax ELSE x
\* A faulty nan_to_num that keeps the array as it is.
nan_to_num_keeping(a) == a
nan_to_num(a) == [i \in 1..Len(a) |-> NanToNum1(a[i])]
\* np.maximum / np.minimum of two scalars (NaN propagates).
FMaximum(a, b) == IF IsNaN(a) \/ IsNaN(b) THEN NaN ELSE IF a >= b THEN a ELSE b
FMinimum(a, b) == IF IsNaN(a) \/ IsNaN(b) THEN NaN ELSE IF a <= b THEN a ELSE b
\* np.clip(a, lo, hi) = minimum(maximum(a, lo), hi): all hi when lo > hi.
np_clip(a, lo, hi) == [i \in 1..Len(a) |-> FMinimum(FMaximum(a[i], lo), hi)]

(***************************************************************************)
(* queens.utils.iterative_averaging: l1_norm, l2_norm, relative_change.    *)
(***************************************************************************)
l1_norm(vector, averaged) ==
    LET v == nan_to_num(vector)
        norm == FSum([i \in 1..Len(v) |-> FAbs(v[i])])
    IN  IF averaged THEN FDiv(norm, OfInt(Len(v))) ELSE norm
\* The sum of squares keeps the relative precision of a float: it is held in
\* units of 1 / Scale^2 and is Overflowed once it rounds to more than FMax.
Overflowed == 0 - 1
AddSquare(sum, x) ==
    IF sum = Overflowed \/ x > Isqrt(OverflowAt - 1) THEN Overflowed
    ELSE IF sum + (x * x) >= OverflowAt THEN Overflowed
    ELSE sum + (x * x)
RECURSIVE SumOfSquares(_)
SumOfSquares(v) ==
    IF Len(v) = 0 THEN 0
    ELSE AddSquare(SumOfSquares(SubSeq(v, 1, Len(v) - 1)), Abs(v[Len(v)]))
\* The square root of a sum of squares, rounded to the nearest float.
RootOfSquares(sum) ==
    IF sum = Overflowed THEN PInf
    ELSE IF sum - (Isqrt(sum) * Isqrt(sum)) > Isqrt(sum) THEN Isqrt(sum) + 1
    ELSE Isqrt(sum)
l2_norm(vector, averaged) ==
    IF averaged
    THEN FDiv(RootOfSquares(SumOfSquares(nan_to_num(vector))), FSqrt(OfInt(Len(vector))))
    ELSE RootOfSquares(SumOfSquares(nan_to_num(vector)))
\* increment / (norm(old) + 1e-16).  1e-16 is far below the model's resolution:
\* it is absorbed by a non-zero norm, and a non-zero increment divided by it
\* lies beyond FMax.
DivByNormPlusEps(inc, nrm) ==
    IF nrm # 0 THEN FDiv(inc, nrm)
    ELSE IF IsNaN(inc) THEN NaN
    ELSE IF inc = 0 THEN 0
    ELSE IF inc > 0 THEN PInf ELSE NInf
relative_change_l1(old_value, new_value) ==
    DivByNormPlusEps(l1_norm(VSub(old_value, new_value), TRUE), l1_norm(old_value, TRUE))
relative_change_l2(old_value, new_value) ==
    DivByNormPlusEps(l2_norm(VSub(old_value, new_value), TRUE), l2_norm(old_value, TRUE))

(***************************************************************************)
(* Gradient clipping.                                                      *)
(***************************************************************************)
clip_by_value(gradient, threshold) ==
    np_clip(nan_to_num(gradient), FNeg(threshold), threshold)
\* A faulty clip_by_l2_norm that never rescales.
clip_by_l2_norm_never(gradient, l2_norm_threshold) == nan_to_num(gradient)
clip_by_l2_norm(gradient, l2_norm_threshold) ==
    LET g == nan_to_num(gradient)
        gradient_l2_norm == l2_norm(g, FALSE)
    IN  IF FGt(gradient_l2_norm, l2_norm_threshold)
        THEN VDivS(g, FDiv(gradient_l2_norm, l2_norm_threshold))
        ELSE g
\* A faulty clip_gradient that clips by norm first.
clip_gradient_norm_first(gradient, value_threshold, norm_threshold) ==
    clip_by_value(clip_by_l2_norm(gradient, norm_threshold), value_threshold)
\* StochasticOptimizer.clip_gradient
clip_gradient(gradient, value_threshold, norm_threshold) ==
    clip_by_l2_norm(clip_by_value(gradient, value_threshold), norm_threshold)

(***************************************************************************)
(* Collaborators of the optimizer that the caller or a subclass supplies.  *)
(***************************************************************************)
\* The gradient functions a caller registers: "noisy" is a stochastic estimate
\* (any array), "twice" is g(x) = 2x, "ones" is g(x) = 1 in every component.
GradientFunctions == {"noisy", "twice", "ones"}
\* What a stochastic gradient estimate may return.
NoisyResults ==
    {<<0>>, <<3 * Scale>>, <<PInf>>, <<NInf, NaN>>, <<0 - Scale, 3 * Scale>>}
\* The set of results of self.gradient(params).
GradientResults(fn, params) ==
    IF fn = "twice" THEN {VScale(OfInt(2), params)}
    ELSE IF fn = "ones" THEN {[i \in 1..Len(params) |-> Scale]}
    ELSE NoisyResults
\* The learning-rate decay policies: None, halving the rate at every call, or
\* ("dynamic") halving it when the gradient passed is larger in L1 norm than the
\* parameters passed.
DecayPolicies == {"None", "halve", "dynamic"}
learning_rate_decay(policy, learning_rate, params, gradient) ==
    IF policy = "halve" THEN FMul(learning_rate, Lit(1, 2))
    ELSE IF policy = "dynamic" /\ FGt(l1_norm(gradient, FALSE), l1_norm(params, FALSE))
    THEN FMul(learning_rate, Lit(1, 2))
    ELSE learning_rate
\* The gradient schemes (subclasses): the plain gradient, and an exponentially
\* averaged gradient m <- m/2 + g/2 whose accumulator starts at zero on first use.
Schemes == {"identity", "momentum"}
SchemeAccumulator(s, gradient) ==
    IF s.scheme = "identity" THEN s.accumulator
    ELSE LET m == IF s.accumulator = NoArray THEN [i \in 1..Len(gradient) |-> 0]
                  ELSE s.accumulator
         IN  VAdd(VScale(Lit(1, 2), m), VScale(Lit(1, 2), gradient))
scheme_specific_gradient(s, gradient) ==
    IF s.scheme = "identity" THEN gradient ELSE SchemeAccumulator(s, gradient)

(***************************************************************************)
(* StochasticOptimizer.                                                    *)
(***************************************************************************)
\* valid_options of __init__.
valid_options == [min |-> 0 - 1, max |-> 1]
\* The attributes after __init__ (scheme and accumulator are the subclass's).
Constructed(learning_rate, optimization_type, l1_thr, l2_thr, norm_thr, value_thr, max_iteration, decay, scheme) ==
    [precoefficient |-> valid_options[optimization_type],
     learning_rate |-> learning_rate,
     clip_by_l2_norm_threshold |-> norm_thr,
     clip_by_value_threshold |-> value_thr,
     max_iteration |-> max_iteration,
     rel_l2_change_threshold |-> l2_thr,
     rel_l1_change_threshold |-> l1_thr,
     iteration |-> 0,
     done |-> FALSE,
     rel_l2_change |-> None,
     rel_l1_change |-> None,
     current_variational_parameters |-> NoArray,
     current_gradient_value |-> NoArray,
     gradient |-> "None",
     learning_rate_decay |-> decay,
     scheme |-> scheme,
     accumulator |-> NoArray]
\* The place of an optimizer whose construction raised: there is no object.
NoObject ==
    [Constructed(0, "min", 0, 0, 0, 0, 0, "None", "identity") EXCEPT !.precoefficient = 0]

\* A faulty precoefficient * learning_rate that drops the sign.
SignedRate_unsigned(s) == s.learning_rate
\* precoefficient * learning_rate, an int times a float.
SignedRate(s) == IF s.precoefficient < 0 THEN FNeg(s.learning_rate) ELSE s.learning_rate
\* Faulty variants of do_single_iteration: one that marks the optimizer done, one
\* that does not count the iteration, one that leaves the learning rate out.
do_single_iteration_marking_done(s, gradient) ==
    [s EXCEPT !.current_variational_parameters = VAdd(@, VScale(SignedRate(s), gradient)),
              !.iteration = @ + 1,
              !.done = TRUE]
do_single_iteration_uncounted(s, gradient) ==
    [s EXCEPT !.current_variational_parameters = VAdd(@, VScale(SignedRate(s), gradient))]
do_single_iteration_unscaled(s, gradient) ==
    [s EXCEPT !.current_variational_parameters =
                  VAdd(@, VScale(OfInt(s.precoefficient), gradient)),
              !.iteration = @ + 1]
\* do_single_iteration: the update and the iteration count.
do_single_iteration(s, gradient) ==
    [s EXCEPT !.current_variational_parameters = VAdd(@, VScale(SignedRate(s), gradient)),
              !.iteration = @ + 1]
\* _compute_rel_change
compute_rel_change(s, old_parameters, new_parameters) ==
    [s EXCEPT !.rel_l2_change = relative_change_l2(old_parameters, new_parameters),
              !.rel_l1_change = relative_change_l1(old_parameters, new_parameters)]
\* Faulty variants of the criterion: one threshold met is enough; the maximum
\* must be passed, not reached.
DoneCriterion_either(s) ==
    \/ FLe(s.rel_l2_change, s.rel_l2_change_threshold)
    \/ FLe(s.rel_l1_change, s.rel_l1_change_threshold)
    \/ s.iteration >= s.max_iteration
DoneCriterion_past_maximum(s) ==
    \/ /\ FLe(s.rel_l2_change, s.rel_l2_change_threshold)
       /\ FLe(s.rel_l1_change, s.rel_l1_change_threshold)
    \/ s.iteration > s.max_iteration
\* The value _check_if_done assigns to done.
DoneCriterion(s) ==
    \/ /\ FLe(s.rel_l2_change, s.rel_l2_change_threshold)
       /\ FLe(s.rel_l1_change, s.rel_l1_change_threshold)
    \/ s.iteration >= s.max_iteration
\* A faulty _check_if_done that makes the optimizer terminal when it raises.
check_if_done_terminal(s) ==
    IF AnyNaN(s.current_variational_parameters)
    THEN [s |-> [s EXCEPT !.done = TRUE], raised |-> TRUE]
    ELSE [s |-> [s EXCEPT !.done = DoneCriterion(s)], raised |-> FALSE]
\* A faulty _check_if_done without the NaN test.
check_if_done_blind(s) == [s |-> [s EXCEPT !.done = DoneCriterion(s)], raised |-> FALSE]
\* _check_if_done: raises on NaN parameters before it assigns done.
check_if_done(s) ==
    IF AnyNaN(s.current_variational_parameters)
    THEN [s |-> s, raised |-> TRUE]
    ELSE [s |-> [s EXCEPT !.done = DoneCriterion(s)], raised |-> FALSE]
\* Whether __next__ reaches the call of self.gradient.
CallsGradient(s) ==
    ~s.done /\ s.current_variational_parameters # NoArray /\ s.gradient # "None"
\* How a call ends for the caller: the state it leaves, the way it ends, the value
\* it returns and the collaborators it called.
Ended(s, outcome, value, called) ==
    [s |-> s, outcome |-> outcome, value |-> value, called |-> called]
\* The collaborators a full step calls.
CalledBy(s) ==
    {"gradient"} \cup (IF s.learning_rate_decay # "None" THEN {"decay"} ELSE {})
\* __next__, the decay of the learning rate.
Decayed(s, current_gradient) ==
    IF s.learning_rate_decay # "None"
    THEN [s EXCEPT !.learning_rate =
              learning_rate_decay(s.learning_rate_decay, @,
                                  s.current_variational_parameters, current_gradient)]
    ELSE s
\* __next__, the scheme's transform of the clipped gradient, kept as
\* current_gradient_value.
Transformed(s, clipped) ==
    [s EXCEPT !.accumulator = SchemeAccumulator(s, clipped),
              !.current_gradient_value = scheme_specific_gradient(s, clipped)]
\* __next__, the end: _check_if_done raised, or the parameters are returned.
NextEnd(chk, called) ==
    IF chk.raised
    THEN Ended(chk.s, "ValueError", NoArray, called)
    ELSE Ended(chk.s, "returned", chk.s.current_variational_parameters, called)
\* _compute_rel_change(old_parameters, self.current_variational_parameters)
RelChangeFrom(s, old_parameters) ==
    compute_rel_change(s, old_parameters, s.current_variational_parameters)
\* __next__, from the update on (numpy raises when the shapes do not broadcast).
NextUpdate(s, old_parameters, called) ==
    IF ~Broadcastable(old_parameters, s.current_gradient_value)
    THEN Ended(s, "ShapeError", NoArray, called)
    ELSE NextEnd(check_if_done(RelChangeFrom(
                     do_single_iteration(s, s.current_gradient_value), old_parameters)),
                 called)
\* __next__, from the clipping on.
NextClip(s, current_gradient, old_parameters, called) ==
    NextUpdate(Transformed(s, clip_gradient(current_gradient, s.clip_by_value_threshold,
                                            s.clip_by_l2_norm_threshold)),
               old_parameters, called)
\* A faulty __next__ that counts the request it answers with StopIteration.
next_counting_requests(s, current_gradient) ==
    IF s.done THEN Ended([s EXCEPT !.iteration = @ + 1], "StopIteration", NoArray, {})
    ELSE IF s.current_variational_parameters = NoArray
    THEN Ended(s, "AttributeError", NoArray, {})
    ELSE IF s.gradient = "None" THEN Ended(s, "TypeError", NoArray, {})
    ELSE NextClip(Decayed(s, current_gradient), current_gradient,
                  s.current_variational_parameters, CalledBy(s))
\* __next__ with current_gradient the result of self.gradient(...).
next(s, current_gradient) ==
    IF s.done THEN Ended(s, "StopIteration", NoArray, {})
    ELSE IF s.current_variational_parameters = NoArray
    THEN Ended(s, "AttributeError", NoArray, {})
    ELSE IF s.gradient = "None" THEN Ended(s, "TypeError", NoArray, {})
    ELSE NextClip(Decayed(s, current_gradient), current_gradient,
                  s.current_variational_parameters, CalledBy(s))

(***************************************************************************)
(* State.                                                                  *)
(*   opt     the optimizer objects, by name                                *)
(*   ctor    each construction: the optimization_type passed and the       *)
(*           exception raised ("none" when the object was constructed)     *)
(*   run     the optimizer whose run_optimization() the caller is inside   *)
(*           ("none" when in none) and its iteration count at the call     *)
(*   last    the caller's view of the last operation: which, on which      *)
(*           optimizer, how it ended, what it returned, which collaborators*)
(*           it called and the gradient it was given                       *)
(*   origin  each optimizer as the caller last set it up (history)         *)
(*   bmfmc   the BMFMC model, its collaborators and its last operation     *)
(*           (see the BMFMC section)                                       *)
(***************************************************************************)
VARIABLES opt, ctor, run, last, origin, bmfmc

vars == <<opt, ctor, run, last, origin, bmfmc>>

Ids == DOMAIN opt
Idle == run.who = "none"
Usable(o) == ctor[o].raised = "none" /\ Idle
Result(op, o, outcome, value, called, gradient) ==
    [op |-> op, who |-> o, outcome |-> outcome, value |-> value, called |-> called,
     gradient |-> gradient]

\* Bound on the updates of one optimizer that the model follows when its
\* max_iteration does not bound them.
MaxUpdates == 2
UpdateCap(s) == IF s.max_iteration > MaxUpdates THEN s.max_iteration ELSE MaxUpdates
\* The optimization_type arguments tried ("median" is no valid option).
OptimizationTypes == {"min", "max", "median"}
\* The learning_rate argument: 2.0.
LearningRates == {OfInt(2)}
\* The (rel_l1_change_threshold, rel_l2_change_threshold) arguments: -1 and 0.5.
ChangeThresholds == {<<0 - Scale, 0 - Scale>>, <<Lit(1, 2), 0 - Scale>>, <<Lit(1, 2), Lit(1, 2)>>}
MaxIterations == {0, 1, 2}
\* (clip_by_l2_norm_threshold, clip_by_value_threshold, learning_rate_decay, scheme):
\* the defaults (no clipping, no decay) with the plain scheme, and one change each.
Variants ==
    {<<PInf, PInf, "None", "identity">>, <<Scale, Scale, "None", "identity">>,
     <<PInf, PInf, "halve", "identity">>, <<PInf, PInf, "None", "momentum">>}
\* The start vectors a caller assigns to current_variational_parameters.
StartVectors == {<<Scale>>, <<0, 0 - (2 * Scale)>>}
\* The gradients a caller passes to do_single_iteration directly.
DirectGradients == {<<Scale>>}

\* get_option(valid_options, key): whether it raises for the key.
get_option_raises(options, key) == key \notin DOMAIN options
\* __init__ with the given arguments: the object, or no object when get_option raises.
Construct(learning_rate, optimization_type, l1_thr, l2_thr, norm_thr, value_thr, max_iteration, decay, scheme) ==
    IF get_option_raises(valid_options, optimization_type)
    THEN [obj |-> NoObject,
          ctor |-> [optimization_type |-> optimization_type,
                    raised |-> "InvalidOptionError"]]
    ELSE [obj |-> Constructed(learning_rate, optimization_type, l1_thr, l2_thr, norm_thr,
                              value_thr, max_iteration, decay, scheme),
          ctor |-> [optimization_type |-> optimization_type, raised |-> "none"]]

\* No BMFMC model is part of the runs of the optimizers.
NoBmfmc == [op |-> "none"]
InitWith(objs) ==
    /\ opt = [o \in DOMAIN objs |-> objs[o].obj]
    /\ ctor = [o \in DOMAIN objs |-> objs[o].ctor]
    /\ origin = [o \in DOMAIN objs |-> objs[o].obj]
    /\ run = [who |-> "none", start |-> 0]
    /\ last = Result("init", "none", "returned", NoArray, {}, NoArray)
    /\ bmfmc = NoBmfmc

\* One optimizer, constructed with any arguments.
Init ==
    \E lr \in LearningRates, ty \in OptimizationTypes, th \in ChangeThresholds,
       mi \in MaxIterations, v \in Variants :
        InitWith([o \in {"A"} |->
                     Construct(lr, ty, th[1], th[2], v[1], v[2], mi, v[3], v[4])])

\* set_gradient_function
set_gradient_function(s, gradient_function) == [s EXCEPT !.gradient = gradient_function]
SetGradientFunction(o, fn) ==
    /\ Usable(o)
    /\ opt[o].gradient = "None"
    /\ opt' = [opt EXCEPT ![o] = set_gradient_function(@, fn)]
    /\ origin' = [origin EXCEPT ![o] = opt'[o]]
    /\ last' = Result("set_gradient_function", o, "returned", NoArray, {}, NoArray)
    /\ UNCHANGED <<bmfmc, ctor, run>>

\* The caller assigns the start vector to current_variational_parameters.
SetParameters(o, p) ==
    /\ Usable(o)
    /\ opt[o].current_variational_parameters = NoArray
    /\ opt' = [opt EXCEPT ![o].current_variational_parameters = p]
    /\ origin' = [origin EXCEPT ![o] = opt'[o]]
    /\ last' = Result("set_parameters", o, "returned", NoArray, {}, NoArray)
    /\ UNCHANGED <<bmfmc, ctor, run>>

\* __iter__: returns self.
\* A faulty __iter__ that restarts the count.
iter_restarting(s) == [s EXCEPT !.iteration = 0]
\* __iter__
iter(s) == s
Iter(o) ==
    /\ Usable(o)
    /\ opt' = [opt EXCEPT ![o] = iter(@)]
    /\ last' = Result("iter", o, "returned", NoArray, {}, NoArray)
    /\ UNCHANGED <<bmfmc, ctor, run, origin>>

\* The results self.gradient(...) may have in a step of s (none when not called).
GradientCall(s) ==
    IF CallsGradient(s)
    THEN GradientResults(s.gradient, s.current_variational_parameters)
    ELSE {NoArray}

\* next(optimizer), called by the caller itself.
Next1(o) ==
    /\ Usable(o)
    /\ opt[o].done \/ opt[o].iteration < UpdateCap(opt[o])
    /\ \E g \in GradientCall(opt[o]) :
        \E r \in {next(opt[o], g)} :
            /\ opt' = [opt EXCEPT ![o] = r.s]
            /\ last' = Result("next", o, r.outcome, r.value, r.called, g)
    /\ UNCHANGED <<bmfmc, ctor, run, origin>>

\* optimizer.do_single_iteration(gradient), called by the caller itself.
DoSingleIteration(o, g) ==
    /\ Usable(o)
    /\ opt[o].iteration < UpdateCap(opt[o])
    /\ IF opt[o].current_variational_parameters = NoArray
       THEN /\ last' = Result("do_single_iteration", o, "TypeError", NoArray, {}, g)
            /\ UNCHANGED opt
       ELSE IF ~Broadcastable(opt[o].current_variational_parameters, g)
       THEN /\ last' = Result("do_single_iteration", o, "ShapeError", NoArray, {}, g)
            /\ UNCHANGED opt
       ELSE /\ opt' = [opt EXCEPT ![o] = do_single_iteration(@, g)]
            /\ last' = Result("do_single_iteration", o, "returned", NoArray, {}, g)
    /\ UNCHANGED <<bmfmc, ctor, run, origin>>

\* optimizer.clip_gradient(gradient), called by the caller itself.
ClipGradient(o, g) ==
    /\ Usable(o)
    /\ last' = Result("clip_gradient", o, "returned",
                      clip_gradient(g, opt[o].clip_by_value_threshold,
                                    opt[o].clip_by_l2_norm_threshold), {}, g)
    /\ UNCHANGED <<bmfmc, opt, ctor, run, origin>>

\* run_optimization: the call, up to the first next() of its for loop.
RunCall(o) ==
    /\ Usable(o)
    /\ opt[o].done \/ opt[o].iteration < UpdateCap(opt[o])
    /\ run' = [who |-> o, start |-> opt[o].iteration]
    /\ last' = Result("run_optimization", o, "called", NoArray, {}, NoArray)
    /\ UNCHANGED <<bmfmc, opt, ctor, origin>>
\* run_optimization: one next() of its for loop.  A returned step goes on with the
\* loop, StopIteration ends the loop and the call returns the parameters, any
\* other exception leaves the call.
RunLoop(o) ==
    /\ run.who = o
    /\ \E g \in GradientCall(opt[o]) :
        \E r \in {next(opt[o], g)} :
            /\ opt' = [opt EXCEPT ![o] = r.s]
            /\ run' = IF r.outcome = "returned" THEN run ELSE [run EXCEPT !.who = "none"]
            /\ last' = IF r.outcome = "returned"
                       THEN Result("run_optimization", o, "looping", r.value, r.called, g)
                       ELSE IF r.outcome = "StopIteration"
                       THEN Result("run_optimization", o, "returned",
                                   r.s.current_variational_parameters, r.called, g)
                       ELSE Result("run_optimization", o, r.outcome, NoArray, r.called, g)
    /\ UNCHANGED <<bmfmc, ctor, origin>>

Next ==
    \/ \E o \in Ids, fn \in GradientFunctions : SetGradientFunction(o, fn)
    \/ \E o \in Ids, p \in StartVectors : SetParameters(o, p)
    \/ \E o \in Ids : Iter(o)
    \/ \E o \in Ids : Next1(o)
    \/ \E o \in Ids, g \in DirectGradients : DoSingleIteration(o, g)
    \/ \E o \in Ids : RunCall(o)
    \/ \E o \in Ids : RunLoop(o)

Spec == Init /\ [][Next]_vars

(***************************************************************************)
(* clip_gradient on its own: one optimizer per pair of thresholds, the     *)
(* caller passes gradients to its clip_gradient method.                    *)
(***************************************************************************)
\* The clipping thresholds tried: -1, 0, 1, 2 and infinity (no clipping).
ClipThresholds == {0 - Scale, 0, Scale, 2 * Scale, PInf}
\* The gradients clipped.
ClipGradients ==
    {<<0>>, <<3 * Scale>>, <<Lit(1, 2)>>, <<NaN>>, <<NInf>>,
     <<0 - Scale, 3 * Scale>>, <<3 * Scale, 3 * Scale>>, <<NInf, NaN>>,
     <<Lit(1, 2), 0 - Lit(1, 2)>>, <<7 * Scale, 0 - (11 * Scale)>>,
     <<FMax, FMax>>, <<Lit(3, 10), Lit(17, 10)>>}
InitClip ==
    \E nt \in ClipThresholds, vt \in ClipThresholds :
        InitWith([o \in {"A"} |->
                     Construct(OfInt(2), "min", 0 - Scale, 0 - Scale, nt, vt, 2,
                               "None", "identity")])
NextClipping == \E o \in Ids, g \in ClipGradients : ClipGradient(o, g)
SpecClip == InitClip /\ [][NextClipping]_vars

(***************************************************************************)
(* Two optimizers A and B of one caller, each with its own deterministic   *)
(* gradient function, stepped in any interleaving.                         *)
(***************************************************************************)
\* (optimization_type, relative-change thresholds, clipping thresholds, decay,
\* scheme) of the optimizers of the pair.
PairConfigs ==
    {<<"min", 0 - Scale, PInf, "None", "identity">>,
     <<"max", Lit(1, 2), Scale, "halve", "momentum">>}
PairFunctions == {"twice", "ones"}
InitPair ==
    \E a \in PairConfigs, b \in PairConfigs :
        InitWith([o \in {"A", "B"} |->
                     LET c == IF o = "A" THEN a ELSE b
                     IN  Construct(OfInt(2), c[1], c[2], c[2], c[3], c[3], MaxUpdates,
                                   c[4], c[5])])
NextPair ==
    \/ \E o \in Ids, fn \in PairFunctions : SetGradientFunction(o, fn)
    \/ \E o \in Ids, p \in StartVectors : SetParameters(o, p)
    \/ \E o \in Ids : Iter(o)
    \/ \E o \in Ids : Next1(o)
    \/ \E o \in Ids : RunCall(o)
    \/ \E o \in Ids : RunLoop(o)
SpecPair == InitPair /\ [][NextPair]_vars

(***************************************************************************)
(* Gradient descent on f(x) = x^2: optimization_type "min", learning_rate  *)
(* 0.1, no clipping, no decay, the plain scheme, g(x) = 2x, x0 = 3.0,      *)
(* max_iteration 200, for several relative-change thresholds.              *)
(***************************************************************************)
\* The (rel_l1_change_threshold, rel_l2_change_threshold) arguments: -1, 0.1, 0.25.
QuadThresholds ==
    {<<0 - Scale, 0 - Scale>>, <<Lit(1, 10), Lit(1, 10)>>, <<Lit(1, 4), Lit(1, 10)>>,
     <<Lit(1, 4), Lit(1, 4)>>}
QuadIterations == 200
QuadStart == <<3 * Scale>>
InitQuad ==
    \E th \in QuadThresholds :
        InitWith([o \in {"A"} |->
                     Construct(Lit(1, 10), "min", th[1], th[2], PInf, PInf,
                               QuadIterations, "None", "identity")])
NextQuad ==
    \/ \E o \in Ids : SetGradientFunction(o, "twice")
    \/ \E o \in Ids : SetParameters(o, QuadStart)
    \/ \E o \in Ids : Next1(o)
    \/ \E o \in Ids : RunCall(o)
    \/ \E o \in Ids : RunLoop(o)
SpecQuad == InitQuad /\ [][NextQuad]_vars

(***************************************************************************)
(* The sub-steps of a step: optimizers whose decay policy reads the        *)
(* parameters and the gradient it is passed, with clipping and a scheme.   *)
(***************************************************************************)
\* (clip_by_l2_norm_threshold, clip_by_value_threshold, learning_rate_decay, scheme)
OrderVariants ==
    {<<Scale, 2 * Scale, "dynamic", "momentum">>, <<Scale, Scale, "dynamic", "identity">>,
     <<PInf, PInf, "None", "momentum">>, <<PInf, 2 * Scale, "halve", "identity">>}
InitOrder ==
    \E ty \in {"min", "max"}, th \in ChangeThresholds, v \in OrderVariants :
        InitWith([o \in {"A"} |->
                     Construct(OfInt(2), ty, th[1], th[2], v[1], v[2], MaxUpdates,
                               v[3], v[4])])
NextOrder ==
    \/ \E o \in Ids, fn \in GradientFunctions : SetGradientFunction(o, fn)
    \/ \E o \in Ids, p \in StartVectors : SetParameters(o, p)
    \/ \E o \in Ids : Next1(o)
    \/ \E o \in Ids : RunCall(o)
    \/ \E o \in Ids : RunLoop(o)
SpecOrder == InitOrder /\ [][NextOrder]_vars

(***************************************************************************)
(* Steps after a failed step: one optimizer, stepped only through next()   *)
(* and run_optimization(), followed for one update more than its           *)
(* max_iteration and MaxUpdates allow.                                     *)
(***************************************************************************)
StepCap(s) == UpdateCap(s) + 1
\* next(optimizer), called by the caller itself.
NextFurther(o) ==
    /\ Usable(o)
    /\ opt[o].done \/ opt[o].iteration < StepCap(opt[o])
    /\ \E g \in GradientCall(opt[o]) :
        \E r \in {next(opt[o], g)} :
            /\ opt' = [opt EXCEPT ![o] = r.s]
            /\ last' = Result("next", o, r.outcome, r.value, r.called, g)
    /\ UNCHANGED <<bmfmc, ctor, run, origin>>
\* run_optimization: the call, up to the first next() of its for loop.
RunCallFurther(o) ==
    /\ Usable(o)
    /\ opt[o].done \/ opt[o].iteration < StepCap(opt[o])
    /\ run' = [who |-> o, start |-> opt[o].iteration]
    /\ last' = Result("run_optimization", o, "called", NoArray, {}, NoArray)
    /\ UNCHANGED <<bmfmc, opt, ctor, origin>>
NextSteps ==
    \/ \E o \in Ids, fn \in GradientFunctions : SetGradientFunction(o, fn)
    \/ \E o \in Ids, p \in StartVectors : SetParameters(o, p)
    \/ \E o \in Ids : NextFurther(o)
    \/ \E o \in Ids : RunCallFurther(o)
    \/ \E o \in Ids : RunLoop(o)
SpecSteps == Init /\ [][NextSteps]_vars

(***************************************************************************)
(* BmfmcModel.  A matrix (numpy array of rank 2) is a tuple of rows, each   *)
(* row a tuple of numbers; a column of n values is a matrix of n rows of    *)
(* one entry.  Python's None is NoArray.  Rows and columns count from 1     *)
(* (numpy counts from 0).  The sampling data are small integers: the model  *)
(* operations on them only select, compare and stack.                       *)
(*                                                                         *)
(* A world w = [m, interface, log, ...] is made of m, the attributes of the  *)
(* model object, interface, the trained state of the probabilistic mapping  *)
(* (NoArray before the first training), and log, the calls made by the      *)
(* operation in progress, in order.  An outcome r = [w, raised] is the      *)
(* world a statement leaves and the exception it raised ("none" when it     *)
(* returned).  A method takes the outcome r of what ran before it: when     *)
(* that raised, the method does not run and the exception propagates.       *)
(***************************************************************************)
Ok(w) == [w |-> w, raised |-> "none"]

Raise(w, exception) == [w |-> w, raised |-> exception]

Returned(r) == r.raised = "none"

Logged(w, event) == [w EXCEPT !.log = Append(@, event)]

Column(values) == [i \in 1..Len(values) |-> <<values[i]>>]

Min(S) == CHOOSE x \in S : \A y \in S : x <= y

Max(S) == CHOOSE x \in S : \A y \in S : x >= y

\* The high-fidelity model: update_model_from_sample_batch(X) followed by
\* evaluate() leaves one response per row of X in response['mean'].
HfResponse(X) == Column([i \in 1..Len(X) |-> 1000 + X[i][1]])

\* np.where(np.all(X_mc == row, axis=1))[0]: the rows of X_mc equal to row.
MatchingRows(X_mc, row) == {j \in 1..Len(X_mc) : X_mc[j] = row}

index_rows_last_match(X_mc, X_train) ==
    [i \in 1..Len(X_train) |->
        IF MatchingRows(X_mc, X_train[i]) = {} THEN 0 ELSE Max(MatchingRows(X_mc, X_train[i]))]

\* ...[0][0] for every row of X_train, in the order of X_train; 0 stands for the
\* IndexError of [0] on an empty result.
index_rows(X_mc, X_train) ==
    [i \in 1..Len(X_train) |->
        IF MatchingRows(X_mc, X_train[i]) = {} THEN 0 ELSE Min(MatchingRows(X_mc, X_train[i]))]

get_hf_training_data_by_rows(w, rows) ==
    IF \E i \in 1..Len(rows) : rows[i] = 0
    THEN Raise(w, "IndexError")
    ELSE Ok([w EXCEPT !.m.Y_HF_train = Column([i \in 1..Len(rows) |-> w.m.Y_HF_mc[rows[i]]])])

get_hf_training_data_entered_model_first(w) ==
    IF w.m.X_train = NoArray THEN Raise(w, "ValueError")
    ELSE IF w.m.high_fidelity_model # "None"
    THEN Ok([Logged(w, <<"high_fidelity_model.evaluate", w.m.X_train>>)
                EXCEPT !.m.Y_HF_train = HfResponse(w.m.X_train)])
    ELSE IF w.m.Y_HF_mc # NoArray
    THEN get_hf_training_data_by_rows(w, index_rows(w.m.X_mc, w.m.X_train))
    ELSE Raise(w, "RuntimeError")

get_hf_training_data_entered(w) ==
    IF w.m.X_train = NoArray THEN Raise(w, "ValueError")
    ELSE IF w.m.high_fidelity_model # "None" /\ w.m.Y_HF_mc = NoArray
    THEN Ok([Logged(w, <<"high_fidelity_model.evaluate", w.m.X_train>>)
                EXCEPT !.m.Y_HF_train = HfResponse(w.m.X_train)])
    ELSE IF w.m.Y_HF_mc # NoArray /\ w.m.high_fidelity_model = "None"
    THEN get_hf_training_data_by_rows(w, index_rows(w.m.X_mc, w.m.X_train))
    ELSE Raise(w, "RuntimeError")

\* The log also keeps the start of the two phases of a run that are methods of
\* the model itself: get_hf_training_data and compute_pyhf_statistics.
get_hf_training_data(r) ==
    IF ~Returned(r) THEN r
    ELSE get_hf_training_data_entered(Logged(r.w, <<"get_hf_training_data">>))

Transpose(M) == [c \in 1..Len(M[1]) |-> [r \in 1..Len(M) |-> M[r][c]]]

\* np.hstack of two matrices: the row counts must agree.
CanHStack(A, B) == Len(A) = Len(B)

HStack(A, B) == [i \in 1..Len(A) |-> A[i] \o B[i]]

\* np.atleast_2d(X[:, idx]).T.  An integer idx selects one column as an array
\* of rank 1, which atleast_2d turns into one row; a list idx selects a matrix
\* with one row per row of X, which atleast_2d leaves as it is.
SelectedColumnsT(X, idx) ==
    IF idx.kind = "int"
    THEN Transpose(<<[i \in 1..Len(X) |-> X[i][idx.col]]>>)
    ELSE Transpose([i \in 1..Len(X) |-> [k \in 1..Len(idx.cols) |-> X[i][idx.cols[k]]]])

\* The probabilistic mapping (interface): build_approximation(X, Y) keeps the
\* training set; evaluate(Z.T) predicts a mean and a variance per sample (column
\* of Z.T, row of Z), or the posterior covariance of all samples for the caller
\* that keeps it as k_post.
InterfaceMean(trained, Z) ==
    Column([i \in 1..Len(Z) |-> Z[i][1] + (trained.Y[1][1] - trained.X[1][1])])

InterfaceVariance(trained, Z) == Column([i \in 1..Len(Z) |-> Len(trained.X)])

InterfaceCovariance(trained, Z) ==
    [i \in 1..Len(Z) |-> [j \in 1..Len(Z) |-> IF i = j THEN Len(trained.X) ELSE 1]]

interface_build_approximation(w, X, Y) ==
    IF X = NoArray \/ Y = NoArray THEN Raise(w, "TypeError")
    ELSE Ok([Logged(w, <<"interface.build_approximation", X, Y>>)
                EXCEPT !.interface = [X |-> X, Y |-> Y]])

\* self.interface.evaluate(Z.T) of a caller that keeps the second result as
\* `keeps` ("variance" or "covariance"); Z is None before the features are set.
interface_evaluate(w, Z, keeps) ==
    IF Z = NoArray THEN Raise(w, "AttributeError")
    ELSE IF w.interface = NoArray THEN Raise(w, "NotFittedError")
    ELSE Ok(Logged(w, <<"interface.evaluate", Z, keeps>>))

\* self.interface.build_approximation(<features>, self.Y_HF_train), the
\* features being the attribute Z_train or Y_LFs_train.
Train(r, features) ==
    IF ~Returned(r) THEN r
    ELSE interface_build_approximation(
             r.w, IF features = "Z_train" THEN r.w.m.Z_train ELSE r.w.m.Y_LFs_train,
             r.w.m.Y_HF_train)

\* self.m_f_mc, self.var_y_mc = self.interface.evaluate(<features>.T), the
\* features being the attribute Z_mc or Y_LFs_mc: the call, then the assignment.
StoreMc(r, features) ==
    IF ~Returned(r) THEN r
    ELSE Ok([r.w EXCEPT !.m.m_f_mc = InterfaceMean(r.w.interface, features),
                        !.m.var_y_mc = InterfaceVariance(r.w.interface, features)])

PredictMc(r, features) ==
    IF ~Returned(r) THEN r
    ELSE StoreMc(interface_evaluate(
                     r.w, IF features = "Z_mc" THEN r.w.m.Z_mc ELSE r.w.m.Y_LFs_mc, "variance"),
                 IF features = "Z_mc" THEN r.w.m.Z_mc ELSE r.w.m.Y_LFs_mc)

\* self.f_mean_train, _ = self.interface.evaluate(<features>.T), the features
\* being the attribute Z_train or Y_LFs_train.
StoreTrain(r, features) ==
    IF ~Returned(r) THEN r
    ELSE Ok([r.w EXCEPT !.m.f_mean_train = InterfaceMean(r.w.interface, features)])

PredictTrain(r, features) ==
    IF ~Returned(r) THEN r
    ELSE StoreTrain(interface_evaluate(
                        r.w, IF features = "Z_train" THEN r.w.m.Z_train ELSE r.w.m.Y_LFs_train,
                        "variance"),
                    IF features = "Z_train" THEN r.w.m.Z_train ELSE r.w.m.Y_LFs_train)

\* update_model_variables(self.Y_LFs_train, self.Z_mc): one random variable per
\* column of Z_mc, keyed LF<counter> or Feat<counter - num_lfs - 1>, counter
\* from 0.
VariableKey(counter, num_lfs) ==
    IF counter < num_lfs - 1 THEN <<"LF", counter>> ELSE <<"Feat", counter - num_lfs - 1>>

update_model_variables(r) ==
    IF ~Returned(r) THEN r
    ELSE IF r.w.m.Y_LFs_train = NoArray \/ r.w.m.Z_mc = NoArray
    THEN Raise(r.w, "AttributeError")
    ELSE Ok([r.w EXCEPT !.variables =
                [c \in 1..Len(r.w.m.Z_mc[1]) |->
                    [key |-> VariableKey(c - 1, Len(r.w.m.Y_LFs_train[1])),
                     value |-> Transpose(r.w.m.Z_mc)[c]]]])

\* A faulty update step that predicts without training the collaborator.
update_probabilistic_mapping_with_features_predict(w) ==
    PredictTrain(PredictMc(Ok(w), "Z_mc"), "Z_train")

update_probabilistic_mapping_with_features_train(w) ==
    PredictTrain(PredictMc(Train(Ok(w), "Z_train"), "Z_mc"), "Z_train")

\* gammas_ext_mc[:, 0:num_features]: the slice stops at the last column.
FirstColumns(M, k) ==
    [i \in 1..Len(M) |-> SubSeq(M[i], 1, IF k < Len(M[i]) THEN k ELSE Len(M[i]))]

update_probabilistic_mapping_with_features(w) ==
    IF w.m.gammas_ext_mc = NoArray THEN Raise(w, "TypeError")
    ELSE IF ~CanHStack(w.m.Y_LFs_mc, w.m.gammas_ext_mc) THEN Raise(w, "ValueError")
    ELSE IF w.m.training_indices = NoArray
    THEN Raise([w EXCEPT !.m.Z_mc =
                    HStack(w.m.Y_LFs_mc,
                           FirstColumns(w.m.gammas_ext_mc, w.m.settings_probab_mapping.num_features))],
               "ValueError")
    ELSE update_probabilistic_mapping_with_features_train(
             [w EXCEPT !.m.Z_mc =
                    HStack(w.m.Y_LFs_mc,
                           FirstColumns(w.m.gammas_ext_mc, w.m.settings_probab_mapping.num_features)),
                       !.m.Z_train =
                    [i \in 1..Len(w.m.training_indices) |->
                        HStack(w.m.Y_LFs_mc,
                               FirstColumns(w.m.gammas_ext_mc,
                                            w.m.settings_probab_mapping.num_features))
                            [w.m.training_indices[i]]]])

\* The branch "man_features": both selections are stored, then Z_train and Z_mc
\* are stacked one after the other; np.hstack raises ValueError when the row
\* counts of its two arguments differ.
set_man_features(w, gammas_ext_train, gammas_ext_mc) ==
    IF ~CanHStack(w.m.Y_LFs_train, gammas_ext_train)
    THEN Raise([w EXCEPT !.m.gammas_ext_train = gammas_ext_train,
                         !.m.gammas_ext_mc = gammas_ext_mc], "ValueError")
    ELSE IF ~CanHStack(w.m.Y_LFs_mc, gammas_ext_mc)
    THEN Raise([w EXCEPT !.m.gammas_ext_train = gammas_ext_train,
                         !.m.gammas_ext_mc = gammas_ext_mc,
                         !.m.Z_train = HStack(w.m.Y_LFs_train, gammas_ext_train)], "ValueError")
    ELSE Ok([w EXCEPT !.m.gammas_ext_train = gammas_ext_train,
                      !.m.gammas_ext_mc = gammas_ext_mc,
                      !.m.Z_train = HStack(w.m.Y_LFs_train, gammas_ext_train),
                      !.m.Z_mc = HStack(w.m.Y_LFs_mc, gammas_ext_mc)])

set_feature_strategy_branch_lenient(w) ==
    IF w.m.settings_probab_mapping.features_config = "man_features"
    THEN IF w.m.X_train = NoArray THEN Raise(w, "TypeError")
         ELSE set_man_features(w, SelectedColumnsT(w.m.X_train, w.m.settings_probab_mapping.X_cols),
                               SelectedColumnsT(w.m.X_mc, w.m.settings_probab_mapping.X_cols))
    ELSE IF w.m.settings_probab_mapping.features_config = "opt_features"
    THEN IF w.m.settings_probab_mapping.num_features < 1
         THEN Raise([w EXCEPT !.m.Z_train = w.m.Y_LFs_train, !.m.Z_mc = w.m.Y_LFs_mc],
                    "ValueError")
         ELSE update_probabilistic_mapping_with_features(w)
    ELSE IF w.m.settings_probab_mapping.features_config = "no_features"
    THEN Ok([w EXCEPT !.m.Z_train = w.m.Y_LFs_train, !.m.Z_mc = w.m.Y_LFs_mc])
    ELSE Raise([w EXCEPT !.m.Z_train = w.m.Y_LFs_train, !.m.Z_mc = w.m.Y_LFs_mc], "IOError")

set_feature_strategy_branch(w) ==
    IF w.m.settings_probab_mapping.features_config = "man_features"
    THEN IF w.m.X_train = NoArray THEN Raise(w, "TypeError")
         ELSE set_man_features(w, SelectedColumnsT(w.m.X_train, w.m.settings_probab_mapping.X_cols),
                               SelectedColumnsT(w.m.X_mc, w.m.settings_probab_mapping.X_cols))
    ELSE IF w.m.settings_probab_mapping.features_config = "opt_features"
    THEN IF w.m.settings_probab_mapping.num_features < 1 THEN Raise(w, "ValueError")
         ELSE update_probabilistic_mapping_with_features(w)
    ELSE IF w.m.settings_probab_mapping.features_config = "no_features"
    THEN Ok([w EXCEPT !.m.Z_train = w.m.Y_LFs_train, !.m.Z_mc = w.m.Y_LFs_mc])
    ELSE Raise(w, "IOError")

set_feature_strategy(r) ==
    IF ~Returned(r) THEN r ELSE update_model_variables(set_feature_strategy_branch(r.w))

\* 1 / m_f_mc.size * np.sum(st.norm.pdf(y, loc=m_f_mc, scale=sqrt(var_y_mc)),
\* axis=0): one entry per support point y, kept as the terms of the sum (the
\* mean and the variance of every sample) and the divisor.
MeanOfNormalPdfs(y, m_f_mc, var_y_mc) ==
    [at |-> y,
     terms |-> [i \in 1..Len(m_f_mc) |-> <<m_f_mc[i][1], var_y_mc[i][1]>>],
     size |-> Len(m_f_mc)]

calculate_p_yhf_mean(r) ==
    IF ~Returned(r) THEN r
    ELSE IF r.w.m.var_y_mc = NoArray \/ r.w.m.m_f_mc = NoArray THEN Raise(r.w, "TypeError")
    ELSE Ok([r.w EXCEPT !.m.p_yhf_mean =
                [s \in 1..Len(r.w.m.y_pdf_support) |->
                    MeanOfNormalPdfs(r.w.m.y_pdf_support[s], r.w.m.m_f_mc, r.w.m.var_y_mc)]])

\* The double loop of _calculate_p_yhf_var over n points, in the order of the
\* iterations: the outer point (num1 + 1), the inner point (the element of
\* f_mean_pred[num1 + 1:] at the inner index, num1 + 1 + inner + 1) and the
\* entry of k_post read, [num1, num1 + inner], all counted from 1.
InnerPairs(n, point) ==
    [e \in 1..(n - point) |-> [first |-> point, second |-> point + e, kcol |-> point + e - 1]]

RECURSIVE PairsFrom(_, _)
PairsFrom(n, point) ==
    IF point > n THEN <<>> ELSE InnerPairs(n, point) \o PairsFrom(n, point + 1)

\* What one iteration of the inner loop is computed from.
PairTerm(pair, f_mean_pred, yhf_var_pred, k_post) ==
    [mean1 |-> f_mean_pred[pair.first][1], var1 |-> yhf_var_pred[pair.first][1],
     mean2 |-> f_mean_pred[pair.second][1], var2 |-> yhf_var_pred[pair.second][1],
     covariance |-> k_post[pair.first][pair.kcol]]

PairTerms(f_mean_pred, yhf_var_pred, k_post) ==
    [p \in 1..Len(PairsFrom(Len(f_mean_pred), 1)) |->
        PairTerm(PairsFrom(Len(f_mean_pred), 1)[p], f_mean_pred, yhf_var_pred, k_post)]

\* 1 / (i - 1) * yhf_pdf_grid - 0.9995 * p_yhf_mean ** 2, assigned at the end of
\* every inner iteration: after the last one it holds the sum over all pairs.
\* With fewer than two points no iteration runs and p_yhf_var keeps its value.
calculate_p_yhf_var_from(r) ==
    IF ~Returned(r) THEN r
    ELSE IF r.w.m.m_f_mc = NoArray \/ r.w.m.var_y_mc = NoArray THEN Raise(r.w, "TypeError")
    ELSE IF Len(r.w.m.m_f_mc) < 2 THEN r
    ELSE IF r.w.m.p_yhf_mean = NoArray THEN Raise(r.w, "TypeError")
    ELSE Ok([r.w EXCEPT !.m.p_yhf_var =
                [s \in 1..Len(r.w.m.y_pdf_support) |->
                    [at |-> r.w.m.y_pdf_support[s],
                     pairs |-> PairTerms(r.w.m.m_f_mc, r.w.m.var_y_mc,
                                         InterfaceCovariance(r.w.interface, r.w.m.Z_mc)),
                     count |-> Len(PairsFrom(Len(r.w.m.m_f_mc), 1)),
                     mean |-> r.w.m.p_yhf_mean[s]]]])

calculate_p_yhf_var(r) ==
    IF ~Returned(r) THEN r
    ELSE calculate_p_yhf_var_from(interface_evaluate(r.w, r.w.m.Z_mc, "covariance"))

compute_pyhf_statistics_var_always(r) ==
    calculate_p_yhf_var(r)

compute_pyhf_statistics_var(r) ==
    IF ~Returned(r) THEN r
    ELSE IF r.w.m.predictive_var_bool THEN calculate_p_yhf_var(r)
    ELSE Ok([r.w EXCEPT !.m.p_yhf_var = NoArray])

compute_pyhf_statistics(r) ==
    IF ~Returned(r) THEN r
    ELSE compute_pyhf_statistics_var(
             calculate_p_yhf_mean(Ok(Logged(r.w, <<"compute_pyhf_statistics">>))))

build_approximation_untrained_data(r, approx_case) ==
    IF approx_case THEN get_hf_training_data(Train(set_feature_strategy(r), "Z_train"))
    ELSE get_hf_training_data(Train(r, "Y_LFs_train"))

build_approximation(r, approx_case) ==
    IF approx_case THEN Train(set_feature_strategy(get_hf_training_data(r)), "Z_train")
    ELSE Train(get_hf_training_data(r), "Y_LFs_train")

run_BMFMC(r) ==
    compute_pyhf_statistics(
        PredictTrain(PredictMc(build_approximation(r, TRUE), "Z_mc"), "Z_train"))

\* Its return value is (self.p_yhf_mean, self.p_yhf_var) of the world it leaves.
run_BMFMC_without_features(r) ==
    compute_pyhf_statistics(
        PredictTrain(PredictMc(build_approximation(r, FALSE), "Y_LFs_mc"), "Y_LFs_train"))

\* est.estimate_pdf(data, bandwidth, support_points): a kernel density estimate
\* of data on the support, kept as what it is an estimate of.
KdeEstimate(data, support) == [kde_of |-> data, on |-> support]

compute_pymc_reference(r) ==
    IF ~Returned(r) THEN r
    ELSE IF r.w.m.Y_LFs_mc = NoArray THEN Raise(r.w, "TypeError")
    ELSE IF r.w.m.Y_LFs_train = NoArray
    THEN Raise([r.w EXCEPT !.m.p_yhf_mc =
                    IF r.w.m.Y_HF_mc # NoArray
                    THEN KdeEstimate(r.w.m.Y_HF_mc, r.w.m.y_pdf_support) ELSE @],
               "AttributeError")
    ELSE Ok([r.w EXCEPT !.m.p_yhf_mc =
                    IF r.w.m.Y_HF_mc # NoArray
                    THEN KdeEstimate(r.w.m.Y_HF_mc, r.w.m.y_pdf_support) ELSE @,
                        !.m.p_ylf_mc =
                    IF Len(r.w.m.Y_LFs_train[1]) < 2
                    THEN KdeEstimate(r.w.m.Y_LFs_mc, r.w.m.y_pdf_support) ELSE @])

EvaluateOutput(r) ==
    IF ~Returned(r) THEN r
    ELSE Ok([r.w EXCEPT !.output =
                [Z_mc |-> r.w.m.Z_mc, m_f_mc |-> r.w.m.m_f_mc, var_y_mc |-> r.w.m.var_y_mc,
                 y_pdf_support |-> r.w.m.y_pdf_support, p_yhf_mean |-> r.w.m.p_yhf_mean,
                 p_yhf_var |-> r.w.m.p_yhf_var, p_yhf_mean_BMFMC |-> r.w.output[1],
                 p_yhf_var_BMFMC |-> r.w.output[2], p_ylf_mc |-> r.w.m.p_ylf_mc,
                 p_yhf_mc |-> r.w.m.p_yhf_mc, Z_train |-> r.w.m.Z_train,
                 X_train |-> r.w.m.X_train, Y_HF_train |-> r.w.m.Y_HF_train]])

Compared(r) ==
    IF ~Returned(r) THEN r
    ELSE Ok([r.w EXCEPT !.output = <<r.w.m.p_yhf_mean, r.w.m.p_yhf_var>>])

\* p_yhf_mean_BMFMC and p_yhf_var_BMFMC: None, or what the run without
\* features returned; kept in output until the dictionary is built.
WithoutFeatures(r) ==
    IF ~Returned(r) THEN r
    ELSE IF r.w.m.no_features_comparison_bool
    THEN Compared(run_BMFMC_without_features(r))
    ELSE Ok([r.w EXCEPT !.output = <<NoArray, NoArray>>])

evaluate(r) == EvaluateOutput(run_BMFMC(WithoutFeatures(compute_pymc_reference(r))))

(***************************************************************************)
(* A BMFMC model after construction, load_sampling_data() and the set-up    *)
(* of the training data by the iterator, and the operations a caller        *)
(* invokes on it.  bmfmc.w is the world the last operation left, bmfmc.op   *)
(* that operation, bmfmc.raised the exception it raised and bmfmc.before    *)
(* the attributes of the model when the operation began; w.log holds the    *)
(* calls of the last operation only.                                        *)
(***************************************************************************)
\* Three Monte-Carlo samples of two inputs; the first and the third coincide.
SampleX_mc == <<<<1, 2>>, <<3, 4>>, <<1, 2>>>>

SampleY_LFs_mc == Column(<<10, 20, 30>>)

SampleY_HF_mc == <<100, 200, 300>>

SampleGammas == <<<<7, 8>>, <<9, 10>>, <<11, 12>>>>

SampleSupport == <<0, 50>>

\* What the iterator has set: nothing yet, one or two rows of X_mc with their
\* indices, or a row that X_mc does not hold.
TrainingSets ==
    {[X_train |-> NoArray, Y_LFs_train |-> NoArray, training_indices |-> NoArray],
     [X_train |-> <<<<1, 2>>>>, Y_LFs_train |-> Column(<<10>>), training_indices |-> <<1>>],
     [X_train |-> <<<<3, 4>>, <<1, 2>>>>, Y_LFs_train |-> Column(<<20, 10>>),
      training_indices |-> <<2, 1>>],
     [X_train |-> <<<<3, 4>>, <<5, 6>>>>, Y_LFs_train |-> Column(<<20, 50>>),
      training_indices |-> NoArray]}

Setting(features_config, X_cols, num_features) ==
    [features_config |-> features_config, X_cols |-> X_cols, num_features |-> num_features]

IntIndex(col) == [kind |-> "int", col |-> col]

ListIndex(cols) == [kind |-> "list", cols |-> cols]

Settings ==
    {Setting("no_features", IntIndex(1), 1), Setting("unknown_features", IntIndex(1), 1),
     Setting("man_features", IntIndex(1), 1), Setting("man_features", IntIndex(2), 1),
     Setting("man_features", ListIndex(<<2>>), 1), Setting("man_features", ListIndex(<<1, 2>>), 1),
     Setting("opt_features", IntIndex(1), 0), Setting("opt_features", IntIndex(1), 1),
     Setting("opt_features", IntIndex(1), 2)}

BmfmcModel(settings, predictive_var_bool, hf_model, no_features_comparison_bool) ==
    [settings_probab_mapping |-> settings, high_fidelity_model |-> hf_model,
     X_train |-> NoArray, Y_HF_train |-> NoArray, Y_LFs_train |-> NoArray,
     X_mc |-> NoArray, Y_LFs_mc |-> NoArray, Y_HF_mc |-> NoArray,
     gammas_ext_mc |-> NoArray, gammas_ext_train |-> NoArray,
     Z_train |-> NoArray, Z_mc |-> NoArray, m_f_mc |-> NoArray, var_y_mc |-> NoArray,
     p_yhf_mean |-> NoArray, p_yhf_var |-> NoArray,
     predictive_var_bool |-> predictive_var_bool,
     p_yhf_mc |-> NoArray, p_ylf_mc |-> NoArray,
     no_features_comparison_bool |-> no_features_comparison_bool,
     f_mean_train |-> NoArray, y_pdf_support |-> SampleSupport,
     training_indices |-> NoArray]

\* load_sampling_data() and the iterator's assignments.
Loaded(m, Y_HF_mc, training, gammas_ext_mc) ==
    [m EXCEPT !.X_mc = SampleX_mc, !.Y_LFs_mc = SampleY_LFs_mc, !.Y_HF_mc = Y_HF_mc,
              !.X_train = training.X_train, !.Y_LFs_train = training.Y_LFs_train,
              !.training_indices = training.training_indices,
              !.gammas_ext_mc = gammas_ext_mc]

World(m) == [m |-> m, interface |-> NoArray, log |-> <<>>, variables |-> NoArray,
             output |-> NoArray]

InitBmfmc ==
    /\ opt = <<>> /\ ctor = <<>> /\ origin = <<>>
    /\ run = [who |-> "none", start |-> 0]
    /\ last = Result("init", "none", "returned", NoArray, {}, NoArray)
    /\ \E settings \in Settings, predictive_var_bool \in BOOLEAN,
          hf_model \in {"None", "model"}, no_features_comparison_bool \in BOOLEAN,
          Y_HF_mc \in {NoArray, SampleY_HF_mc}, training \in TrainingSets,
          gammas_ext_mc \in {NoArray, SampleGammas} :
            bmfmc = [op |-> "init", raised |-> "none", before |-> NoArray,
                     w |-> World(Loaded(BmfmcModel(settings, predictive_var_bool, hf_model,
                                                   no_features_comparison_bool),
                                        Y_HF_mc, training, gammas_ext_mc))]

\* The world an operation starts in: its log and its return value are its own.
Entry == [bmfmc.w EXCEPT !.log = <<>>, !.output = NoArray]

Call(op, r) ==
    /\ bmfmc' = [op |-> op, raised |-> r.raised, before |-> bmfmc.w.m, w |-> r.w]
    /\ UNCHANGED <<opt, ctor, run, last, origin>>

GetHfTrainingData == Call("get_hf_training_data", get_hf_training_data(Ok(Entry)))

SetFeatureStrategy == Call("set_feature_strategy", set_feature_strategy(Ok(Entry)))

BuildApproximation(approx_case) ==
    Call("build_approximation", build_approximation(Ok(Entry), approx_case))

ComputePyhfStatistics == Call("compute_pyhf_statistics", compute_pyhf_statistics(Ok(Entry)))

ComputePymcReference == Call("compute_pymc_reference", compute_pymc_reference(Ok(Entry)))

RunBMFMC == Call("run_BMFMC", run_BMFMC(Ok(Entry)))

RunBMFMCWithoutFeatures ==
    Call("run_BMFMC_without_features", Compared(run_BMFMC_without_features(Ok(Entry))))

Evaluate == Call("evaluate", evaluate(Ok(Entry)))

\* The caller switches the predictive variance on or off between two runs.
SetPredictiveVarBool(value) ==
    /\ bmfmc.w.m.predictive_var_bool # value
    /\ Call("predictive_var_bool", Ok([Entry EXCEPT !.m.predictive_var_bool = value]))

NextBmfmc ==
    \/ GetHfTrainingData
    \/ SetFeatureStrategy
    \/ \E approx_case \in BOOLEAN : BuildApproximation(approx_case)
    \/ ComputePyhfStatistics
    \/ ComputePymcReference
    \/ RunBMFMC
    \/ RunBMFMCWithoutFeatures
    \/ Evaluate
    \/ \E value \in BOOLEAN : SetPredictiveVarBool(value)

SpecBmfmc == InitBmfmc /\ [][NextBmfmc]_vars

(***************************************************************************)
(* The numbers of _calculate_p_yhf_var.  Means, variances, covariances and  *)
(* support points are integers in units of 1/2, so that the products of the *)
(* loop are exact integers: a determinant in units of 1/4, the quadratic    *)
(* form diff . [[var2, -cov], [-cov, var1]] . diff in units of 1/160 (which *)
(* holds the factor 0.95 = 19/20 exactly).  An exponent argument is an      *)
(* extended number: finite in units of 1/100, an infinity or NaN.  A value  *)
(* of np.exp is kept by its argument: exp(x) for a finite x in the range of *)
(* float64, 0 below it (underflow), inf above it (overflow), NaN for NaN.   *)
(***************************************************************************)
Fin(v) == [k |-> "fin", v |-> v]

ENaN == [k |-> "nan", v |-> 0]

EInf(sign) == [k |-> "inf", v |-> sign]

\* inf * x for a finite x (IEEE: inf * 0 is NaN).
InfTimes(x) == IF x = 0 THEN ENaN ELSE EInf(Sgn(x))

\* e * d for an infinite or NaN e and a finite d.
ETimes(e, d) == IF e.k = "nan" \/ d = 0 THEN ENaN ELSE EInf(e.v * Sgn(d))

\* e + f for infinite or NaN e and f (IEEE: inf - inf is NaN).
EPlus(e, f) == IF e.k = "nan" \/ f.k = "nan" \/ e.v # f.v THEN ENaN ELSE e

ENeg(e) == IF e.k = "nan" THEN e ELSE [e EXCEPT !.v = 0 - @]

\* The natural logarithm of p / q, 1 <= p / q < 2, in units of 1/10000, by the
\* series 2 (z + z^3 / 3 + z^5 / 5) in z = (p - q) / (p + q).
LnSeries(z) ==
    2 * (z + ((((z * z) \div 10000) * z) \div 10000) \div 3
           + ((((((z * z) \div 10000) * z) \div 10000) * ((z * z) \div 10000)) \div 10000) \div 5)

\* The natural logarithm of p / q (p, q > 0) in units of 1/10000; ln 2 = 0.6931.
RECURSIVE Ln(_, _)
Ln(p, q) ==
    IF p < q THEN 0 - Ln(q, p)
    ELSE IF p >= 2 * q THEN 6931 + Ln(p, 2 * q)
    ELSE LnSeries((10000 * (p - q)) \div (p + q))

\* det_sigma = var1 * var2 - covariance ** 2, in units of 1/4.
DetSigma(term) == term.var1 * term.var2 - term.covariance * term.covariance

\* if det_sigma < 0: det_sigma = 1e-6; covariance = 0.95 * covariance.
Regularized(term) == DetSigma(term) < 0

\* The covariance that inv_sigma is built from, in units of 1/40.
CovarianceUsed(term) ==
    IF Regularized(term) THEN 19 * term.covariance ELSE 20 * term.covariance

\* b * det_sigma = diff . [[var2, -cov], [-cov, var1]] . diff at the support
\* point y, in units of 1/160.
QuadraticForm(term, y) ==
    20 * term.var2 * (y - term.mean1) * (y - term.mean1)
    - 2 * CovarianceUsed(term) * (y - term.mean1) * (y - term.mean2)
    + 20 * term.var1 * (y - term.mean2) * (y - term.mean2)

\* det_sigma = 0: 1 / det_sigma is inf, the entries of inv_sigma are infinite or
\* NaN, and so are a = diff . inv_sigma and b = sum(a * diff); c is 0 and
\* log(1 / c) is inf.
SingularB(term, y) ==
    EPlus(ETimes(EPlus(ETimes(InfTimes(term.var2), y - term.mean1),
                       ETimes(InfTimes(0 - term.covariance), y - term.mean2)),
                 y - term.mean1),
          ETimes(EPlus(ETimes(InfTimes(0 - term.covariance), y - term.mean1),
                       ETimes(InfTimes(term.var1), y - term.mean2)),
                 y - term.mean2))

\* args = -0.5 * b + np.log(1 / c), c = np.sqrt(4 * pi ** 2 * det_sigma).
\* With det_sigma = 1e-6: b = 1e6 * form / 160 and log(1 / c) = ln(1000 / (2 pi))
\* = 5.07.  With det_sigma = det / 4 > 0: b = form / (40 * det) and log(1 / c) =
\* -ln(2 pi) - ln(det / 4) / 2, ln(2 pi) = 1.84.
Args(term, y) ==
    IF Regularized(term) THEN Fin(507 - 312500 * QuadraticForm(term, y))
    ELSE IF DetSigma(term) = 0 THEN EPlus(ENeg(SingularB(term, y)), EInf(1))
    ELSE Fin(0 - RoundDiv(100 * QuadraticForm(term, y), 80 * DetSigma(term))
             - 184 - RoundDiv(Ln(DetSigma(term), 4), 200))

Uncapped(args) == args

\* args[args > 40] = 40 (a comparison with NaN is false).
Capped(args) ==
    IF args.k = "nan" THEN args
    ELSE IF args.k = "inf" THEN (IF args.v > 0 THEN Fin(4000) ELSE args)
    ELSE IF args.v > 4000 THEN Fin(4000) ELSE args

\* np.exp: float64 overflows above 709.78 and underflows to 0 below -745.13.
Exp(args) ==
    IF args.k = "nan" THEN [is |-> "nan", arg |-> 0]
    ELSE IF args.k = "inf" THEN [is |-> IF args.v > 0 THEN "inf" ELSE "zero", arg |-> 0]
    ELSE IF args.v > 70978 THEN [is |-> "inf", arg |-> 0]
    ELSE IF args.v < 0 - 74513 THEN [is |-> "zero", arg |-> 0]
    ELSE [is |-> "exp", arg |-> args.v]

\* What one iteration of the inner loop adds to yhf_pdf_grid at support point y.
Contribution(term, y) == Exp(Capped(Args(term, y)))

(***************************************************************************)
(* _calculate_p_yhf_var on predictions of the collaborator: means and       *)
(* variances of one to three Monte-Carlo points and a posterior covariance  *)
(* matrix k_post, any of a family of symmetric matrices.  bmfmc.pairs and   *)
(* bmfmc.terms keep what the iterations of the loop worked on, in order.    *)
(***************************************************************************)
VarMeans == {<<0, 2, 2>>, <<2, 0, 3>>}

VarVariances == {2, 4}

VarCovariances == {0 - 3, 0, 2, 3}

VarSupport == <<0, 2, 3>>

SymmetricMatrix(n, diagonal, k12, k13, k23) ==
    [i \in 1..n |-> [j \in 1..n |->
        IF i = j THEN diagonal
        ELSE IF {i, j} = {1, 2} THEN k12 ELSE IF {i, j} = {1, 3} THEN k13 ELSE k23]]

\* 1 / (i - 1) * yhf_pdf_grid - 0.9995 * p_yhf_mean ** 2 at one support point,
\* kept as the terms of yhf_pdf_grid, the divisor and the mean.
VarianceAt(terms, y, p_yhf_mean) ==
    [grid |-> [p \in 1..Len(terms) |-> Contribution(terms[p], y)],
     count |-> Len(terms), mean |-> p_yhf_mean]

calculate_p_yhf_var_numbers(b, terms) ==
    IF terms = <<>> THEN [b EXCEPT !.op = "_calculate_p_yhf_var"]
    ELSE [b EXCEPT !.op = "_calculate_p_yhf_var",
                   !.pairs = PairsFrom(Len(b.m_f_mc), 1),
                   !.terms = terms,
                   !.p_yhf_var = [s \in 1..Len(b.y_pdf_support) |->
                                     VarianceAt(terms, b.y_pdf_support[s], b.p_yhf_mean[s])]]

InitVar ==
    /\ opt = <<>> /\ ctor = <<>> /\ origin = <<>>
    /\ run = [who |-> "none", start |-> 0]
    /\ last = Result("init", "none", "returned", NoArray, {}, NoArray)
    /\ \E n \in 1..3, means \in VarMeans, variances \in [1..3 -> VarVariances],
          diagonal \in VarVariances, k12, k13, k23 \in VarCovariances :
            bmfmc = [op |-> "init",
                     m_f_mc |-> Column(SubSeq(means, 1, n)),
                     var_y_mc |-> Column(SubSeq(variances, 1, n)),
                     k_post |-> SymmetricMatrix(n, diagonal, k12, k13, k23),
                     y_pdf_support |-> VarSupport,
                     p_yhf_mean |-> NoArray, p_yhf_var |-> NoArray,
                     pairs |-> <<>>, terms |-> <<>>]

\* compute_pyhf_statistics with predictive_var_bool true, the collaborator
\* returning bmfmc.k_post.
CalculatePYhfMean ==
    /\ bmfmc' = [bmfmc EXCEPT !.op = "_calculate_p_yhf_mean",
                              !.p_yhf_mean =
                                  [s \in 1..Len(bmfmc.y_pdf_support) |->
                                      MeanOfNormalPdfs(bmfmc.y_pdf_support[s],
                                                       bmfmc.m_f_mc, bmfmc.var_y_mc)]]
    /\ UNCHANGED <<opt, ctor, run, last, origin>>

CalculatePYhfVar ==
    /\ bmfmc.p_yhf_mean # NoArray
    /\ bmfmc' = calculate_p_yhf_var_numbers(
                    bmfmc, PairTerms(bmfmc.m_f_mc, bmfmc.var_y_mc, bmfmc.k_post))
    /\ UNCHANGED <<opt, ctor, run, last, origin>>

NextVar ==
    \/ CalculatePYhfMean
    \/ CalculatePYhfVar

SpecVar == InitVar /\ [][NextVar]_vars

(***************************************************************************)
(* The double loop of _calculate_p_yhf_var iteration by iteration.          *)
(* bmfmc.outer counts the outer iterations entered (num1 + 1), bmfmc.inner  *)
(* the inner iterations done in the current outer one, bmfmc.yhf_pdf_grid   *)
(* holds, per support point, the contributions added so far in the order of *)
(* the additions, bmfmc.i is the counter of the loop.  After the loop the   *)
(* same pairs are computed once more in any order by two workers that keep  *)
(* partial sums (bmfmc.partial) which are reduced at the end                *)
(* (bmfmc.reduced).                                                        *)
(***************************************************************************)
Workers == {1, 2}

\* The faulty divisor i instead of i - 1.
RunningVarianceByCounter(yhf_pdf_grid, i, p_yhf_mean) ==
    [grid |-> yhf_pdf_grid, count |-> i, mean |-> p_yhf_mean]

\* 1 / (i - 1) * yhf_pdf_grid - 0.9995 * self.p_yhf_mean ** 2 at one support
\* point, kept as the terms of yhf_pdf_grid, the divisor and the mean.
RunningVariance(yhf_pdf_grid, i, p_yhf_mean) ==
    [grid |-> yhf_pdf_grid, count |-> i - 1, mean |-> p_yhf_mean]

\* yhf_pdf_grid += np.exp(args); i = i + 1, for the pair of the iteration.
Accumulated(b, pair) ==
    [b EXCEPT !.yhf_pdf_grid =
                  [s \in 1..Len(b.y_pdf_support) |->
                      Append(b.yhf_pdf_grid[s],
                             Contribution(PairTerm(pair, b.m_f_mc, b.var_y_mc, b.k_post),
                                          b.y_pdf_support[s]))],
              !.i = @ + 1]

\* self.p_yhf_var = 1 / (i - 1) * yhf_pdf_grid - 0.9995 * self.p_yhf_mean ** 2
Assigned(b) ==
    [b EXCEPT !.p_yhf_var =
                  [s \in 1..Len(b.y_pdf_support) |->
                      RunningVariance(b.yhf_pdf_grid[s], b.i, b.p_yhf_mean[s])]]

\* The pairs of the double loop over the points of b, in the order of the loop.
LoopPairs(b) == PairsFrom(Len(b.m_f_mc), 1)

InitLoop ==
    /\ opt = <<>> /\ ctor = <<>> /\ origin = <<>>
    /\ run = [who |-> "none", start |-> 0]
    /\ last = Result("init", "none", "returned", NoArray, {}, NoArray)
    /\ \E n \in 1..3, means \in VarMeans, variances \in [1..3 -> VarVariances],
          diagonal \in VarVariances, k12 \in VarCovariances :
            bmfmc = [op |-> "init",
                     m_f_mc |-> Column(SubSeq(means, 1, n)),
                     var_y_mc |-> Column(SubSeq(variances, 1, n)),
                     k_post |-> SymmetricMatrix(n, diagonal, k12, 0, 0),
                     y_pdf_support |-> VarSupport,
                     p_yhf_mean |-> [s \in 1..Len(VarSupport) |->
                                        MeanOfNormalPdfs(VarSupport[s],
                                                         Column(SubSeq(means, 1, n)),
                                                         Column(SubSeq(variances, 1, n)))],
                     p_yhf_var |-> NoArray,
                     yhf_pdf_grid |-> NoArray, i |-> 0, outer |-> 0, inner |-> 0,
                     taken |-> {}, partial |-> NoArray, reduced |-> NoArray]

\* _calculate_p_yhf_var up to the loops: yhf_pdf_grid = np.zeros(...), i = 1.
EnterLoop ==
    /\ bmfmc.op = "init"
    /\ bmfmc' = [bmfmc EXCEPT !.op = "loop",
                              !.yhf_pdf_grid = [s \in 1..Len(bmfmc.y_pdf_support) |-> <<>>],
                              !.i = 1]
    /\ UNCHANGED <<opt, ctor, run, last, origin>>

\* for num1, (mean1, var1) in enumerate(zip(f_mean_pred, yhf_var_pred)): the
\* next outer iteration begins when the inner loop of the current one is done.
OuterIteration ==
    /\ bmfmc.op = "loop"
    /\ bmfmc.outer < Len(bmfmc.m_f_mc)
    /\ bmfmc.outer = 0 \/ bmfmc.inner = Len(bmfmc.m_f_mc) - bmfmc.outer
    /\ bmfmc' = [bmfmc EXCEPT !.outer = @ + 1, !.inner = 0]
    /\ UNCHANGED <<opt, ctor, run, last, origin>>

\* One iteration of the inner loop over f_mean_pred[num1 + 1:].
InnerIteration ==
    /\ bmfmc.op = "loop"
    /\ bmfmc.outer >= 1
    /\ bmfmc.inner < Len(bmfmc.m_f_mc) - bmfmc.outer
    /\ bmfmc' = [Assigned(Accumulated(bmfmc, InnerPairs(Len(bmfmc.m_f_mc),
                                                        bmfmc.outer)[bmfmc.inner + 1]))
                    EXCEPT !.inner = @ + 1]
    /\ UNCHANGED <<opt, ctor, run, last, origin>>

\* Both loops are exhausted: the method returns.
LeaveLoop ==
    /\ bmfmc.op = "loop"
    /\ bmfmc.outer = Len(bmfmc.m_f_mc)
    /\ bmfmc.inner = Len(bmfmc.m_f_mc) - bmfmc.outer
    /\ bmfmc' = [bmfmc EXCEPT !.op = "left",
                              !.partial = [w \in Workers |->
                                              [s \in 1..Len(bmfmc.y_pdf_support) |-> <<>>]]]
    /\ UNCHANGED <<opt, ctor, run, last, origin>>

\* A worker computes the body of the inner loop for a pair no worker has taken
\* yet and adds the contribution to its own partial sum.
WorkerIteration(w, p) ==
    /\ bmfmc.op \in {"left", "workers"}
    /\ p \in 1..Len(LoopPairs(bmfmc)) /\ p \notin bmfmc.taken
    /\ bmfmc' = [bmfmc EXCEPT
                    !.op = "workers",
                    !.taken = @ \cup {p},
                    !.partial[w] =
                        [s \in 1..Len(bmfmc.y_pdf_support) |->
                            Append(@[s],
                                   Contribution(PairTerm(LoopPairs(bmfmc)[p], bmfmc.m_f_mc,
                                                         bmfmc.var_y_mc, bmfmc.k_post),
                                                bmfmc.y_pdf_support[s]))]]
    /\ UNCHANGED <<opt, ctor, run, last, origin>>

\* A faulty reduction that keeps the partial sum of the first worker only.
ReducedFirstOnly(partial, s) == partial[1][s]

\* The reduction of the partial sums at support point s.
Reduced(partial, s) == partial[1][s] \o partial[2][s]

\* All pairs are taken: the partial sums are reduced and the variance is
\* finalized once, 1 / P * sum - 0.9995 * p_yhf_mean ** 2.
Reduce ==
    /\ bmfmc.op = "workers"
    /\ bmfmc.taken = 1..Len(LoopPairs(bmfmc))
    /\ bmfmc' = [bmfmc EXCEPT
                    !.op = "reduced",
                    !.reduced = [s \in 1..Len(bmfmc.y_pdf_support) |->
                                    [grid |-> Reduced(bmfmc.partial, s),
                                     count |-> Cardinality(bmfmc.taken),
                                     mean |-> bmfmc.p_yhf_mean[s]]]]
    /\ UNCHANGED <<opt, ctor, run, last, origin>>

NextLoop ==
    \/ EnterLoop
    \/ OuterIteration
    \/ InnerIteration
    \/ LeaveLoop
    \/ \E w \in Workers, p \in 1..3 : WorkerIteration(w, p)
    \/ Reduce

SpecLoop == InitLoop /\ [][NextLoop]_vars

(***************************************************************************)
(* calculate_extended_gammas: the greedy ranking of the input dimensions.   *)
(* The input matrix is kept by its columns (bmfmc.columns[j] holds the      *)
(* values of dimension j at the Monte-Carlo points), the pool x_iter_test   *)
(* as the sequence of the dimensions still in it, and every column of       *)
(* gammas_ext_mc as the dimensions whose standardized columns were added up *)
(* to form it.  There are no random fields and one low-fidelity output.     *)
(* Scores are compared exactly, as ratios; the inputs are chosen so that    *)
(* equal ratios are equal floats (equal, mirrored or constant columns).     *)
(***************************************************************************)
RECURSIVE SumOver(_)
SumOver(values) ==
    IF values = <<>> THEN 0 ELSE values[1] + SumOver(Tail(values))

\* StandardScaler: the deviations from the mean, times the number of values
\* (the division by the standard deviation is in CorrCoef).
Deviations(values) == [i \in 1..Len(values) |-> Len(values) * values[i] - SumOver(values)]

\* np.abs(np.dot(x.T, Y_LFS_mc_stdized)) for one column x, squared, as the ratio
\* num / den up to a factor common to all columns: the squared covariance over
\* the variance; StandardScaler leaves a constant column at zero, score 0.
CorrCoef(values, Y) ==
    IF SumOver([i \in 1..Len(values) |-> Deviations(values)[i] * Deviations(values)[i]]) = 0
    THEN [num |-> 0, den |-> 1]
    ELSE [num |-> SumOver([i \in 1..Len(values) |-> Deviations(values)[i] * Deviations(Y)[i]])
                  * SumOver([i \in 1..Len(values) |-> Deviations(values)[i] * Deviations(Y)[i]]),
          den |-> SumOver([i \in 1..Len(values) |-> Deviations(values)[i] * Deviations(values)[i]])]

\* corr_coef_unnorm, one score per column of the pool.
corr_coef_unnorm(b) ==
    [q \in 1..Len(b.x_iter_test) |-> CorrCoef(b.columns[b.x_iter_test[q]], b.Y_LFs_mc)]

ScoreLe(x, y) == x.num * y.den <= y.num * x.den

\* select_bool = corr_coef_unnorm == np.max(corr_coef_unnorm)
select_bool(b) ==
    [q \in 1..Len(b.x_iter_test) |->
        \A o \in 1..Len(b.x_iter_test) : ScoreLe(corr_coef_unnorm(b)[o], corr_coef_unnorm(b)[q])]

\* test_iter = np.dot(x_iter_test, select_bool): the sum of the selected columns.
test_iter(b) == {b.x_iter_test[q] : q \in {o \in 1..Len(b.x_iter_test) : select_bool(b)[o]}}

\* x_iter_test[:, ~select_bool[:, 0]]
Unselected(b) == SelectSeq(b.x_iter_test, LAMBDA dim : dim \notin test_iter(b))

\* One iteration of the ranking loop.  np.max of the scores of an empty pool
\* raises ValueError; the ranking is plotted in the first iteration.
ranking_iteration(b) ==
    IF b.x_iter_test = <<>> THEN [b EXCEPT !.raised = "ValueError", !.op = "raised"]
    ELSE [b EXCEPT !.plots = IF b.counter = 0 THEN @ + 1 ELSE @,
                   !.selected = test_iter(b),
                   !.x_iter_test = Unselected(b),
                   !.gammas_ext_mc = Append(@, test_iter(b)),
                   !.counter = @ + 1]

\* The values of an input dimension at three Monte-Carlo points: rising,
\* falling (the mirror image of rising), mixed and constant.
RankColumns == {<<1, 2, 3>>, <<3, 2, 1>>, <<1, 3, 2>>, <<5, 5, 5>>}
RankOutputs == {<<1, 2, 4>>, <<1, 2, 5>>}

InitRank ==
    /\ opt = <<>> /\ ctor = <<>> /\ origin = <<>>
    /\ run = [who |-> "none", start |-> 0]
    /\ last = Result("init", "none", "returned", NoArray, {}, NoArray)
    /\ \E d \in 1..3, columns \in [1..3 -> RankColumns], Y \in RankOutputs :
           bmfmc = [op |-> "init", raised |-> "none",
                    columns |-> SubSeq(columns, 1, d), Y_LFs_mc |-> Y,
                    x_iter_test |-> NoArray, gammas_ext_mc |-> NoArray,
                    selected |-> {}, counter |-> 0, plots |-> 0]

\* calculate_extended_gammas up to the loop: x_red = self.input_dim_red(),
\* x_iter_test = x_red, self.gammas_ext_mc = np.empty((n, 0)).
CalculateExtendedGammas ==
    /\ bmfmc.op = "init"
    /\ bmfmc' = [bmfmc EXCEPT !.op = "ranking",
                              !.x_iter_test = [j \in 1..Len(bmfmc.columns) |-> j],
                              !.gammas_ext_mc = <<>>]
    /\ UNCHANGED <<opt, ctor, run, last, origin>>

\* for counter in range(x_red.shape[1]): one iteration.
RankingIteration ==
    /\ bmfmc.op = "ranking"
    /\ bmfmc.counter < Len(bmfmc.columns)
    /\ bmfmc' = ranking_iteration(bmfmc)
    /\ UNCHANGED <<opt, ctor, run, last, origin>>

\* The loop is exhausted: calculate_extended_gammas returns.
RankingReturns ==
    /\ bmfmc.op = "ranking"
    /\ bmfmc.counter = Len(bmfmc.columns)
    /\ bmfmc' = [bmfmc EXCEPT !.op = "returned"]
    /\ UNCHANGED <<opt, ctor, run, last, origin>>

NextRank ==
    \/ CalculateExtendedGammas
    \/ RankingIteration
    \/ RankingReturns

SpecRank == InitRank /\ [][NextRank]_vars

(***************************************************************************)
(* Properties.                                                             *)
(***************************************************************************)
\* The last operation was a step request on o: next(o) by the caller, or the
\* next() of the for loop of run_optimization.
StepRequested(o) ==
    /\ last.who = o
    /\ \/ last.op = "next"
       \/ last.op = "run_optimization" /\ last.outcome # "called"
\* ... and the step returned the parameters.
StepReturned(o) ==
    /\ last.who = o
    /\ \/ last.op = "next" /\ last.outcome = "returned"
       \/ last.op = "run_optimization" /\ last.outcome = "looping"
\* ... and the step signalled end-of-sequence (which ends run_optimization's loop).
StepStopped(o) ==
    /\ last.who = o
    /\ \/ last.op = "next" /\ last.outcome = "StopIteration"
       \/ last.op = "run_optimization" /\ last.outcome = "returned"
\* ... and the step failed with the NaN error.
StepRaisedNaN(o) == StepRequested(o) /\ last.outcome = "ValueError"
\* The convergence criterion as the specification states it.
Converged(s) ==
    \/ /\ FLe(s.rel_l2_change, s.rel_l2_change_threshold)
       /\ FLe(s.rel_l1_change, s.rel_l1_change_threshold)
    \/ s.iteration >= s.max_iteration

\* C1: once done is true, a step request signals end-of-sequence, calls neither
\* the gradient function nor the decay policy, and leaves every attribute of the
\* optimizer as it was.
C1_DoneStepIsNoOp ==
    [][\A o \in Ids :
          (opt[o].done /\ StepRequested(o)') =>
              (StepStopped(o)' /\ last'.called = {} /\ opt'[o] = opt[o])]_vars
\* C1: an end-of-sequence answer of an optimizer that converged by its thresholds.
C1_Witness ==
    /\ last.op = "next" /\ last.outcome = "StopIteration"
    /\ opt["A"].done /\ opt["A"].iteration < opt["A"].max_iteration

\* C2, as claimed: done becomes true only at the end of a step that satisfies the
\* criterion, and once done is true no operation (next, run_optimization,
\* do_single_iteration) changes the parameters or the iteration count.
C2_Original ==
    [][\A o \in Ids :
          /\ (~opt[o].done /\ opt'[o].done) => (StepReturned(o)' /\ Converged(opt'[o]))
          /\ opt[o].done =>
                /\ opt'[o].current_variational_parameters =
                       opt[o].current_variational_parameters
                /\ opt'[o].iteration = opt[o].iteration]_vars
\* C2, amended: done becomes true only at the end of a step that satisfies the
\* criterion; once done is true next() and run_optimization() change neither the
\* parameters nor the iteration count; do_single_iteration() called directly never
\* changes done and performs its update whether done is true or not.
C2_DoneIsTerminalForSteps ==
    [][\A o \in Ids :
          /\ (~opt[o].done /\ opt'[o].done) => (StepReturned(o)' /\ Converged(opt'[o]))
          /\ (opt[o].done /\ last'.op # "do_single_iteration") =>
                /\ opt'[o].current_variational_parameters =
                       opt[o].current_variational_parameters
                /\ opt'[o].iteration = opt[o].iteration
          /\ (last'.op = "do_single_iteration" /\ last'.who = o) =>
                /\ opt'[o].done = opt[o].done
                /\ last'.outcome = "returned" => opt'[o].iteration = opt[o].iteration + 1]_vars
\* C2: do_single_iteration has updated an optimizer that is done.
C2_Witness ==
    /\ last.op = "do_single_iteration" /\ last.outcome = "returned"
    /\ opt["A"].done /\ opt["A"].iteration > opt["A"].max_iteration

\* C3: after a step that returns, done is exactly (both relative changes at or
\* below their thresholds, or iteration >= max_iteration), the relative changes
\* being those of the parameters before and after the step; with negative
\* thresholds done is true only when iteration has reached max_iteration.
C3_DoneIsCriterion ==
    [][\A o \in Ids :
          StepReturned(o)' =>
              /\ opt'[o].rel_l1_change =
                     relative_change_l1(opt[o].current_variational_parameters,
                                        opt'[o].current_variational_parameters)
              /\ opt'[o].rel_l2_change =
                     relative_change_l2(opt[o].current_variational_parameters,
                                        opt'[o].current_variational_parameters)
              /\ opt'[o].done = Converged(opt'[o])
              /\ (opt[o].rel_l1_change_threshold < 0 /\ opt[o].rel_l2_change_threshold < 0
                     /\ opt'[o].done) => opt'[o].iteration >= opt[o].max_iteration]_vars
\* C3: a step returned with one threshold met alone, and done is false.
C3_Witness ==
    /\ StepReturned("A") /\ ~opt["A"].done
    /\ FLe(opt["A"].rel_l1_change, opt["A"].rel_l1_change_threshold)
    /\ ~FLe(opt["A"].rel_l2_change, opt["A"].rel_l2_change_threshold)

\* The gradient a step of s applies when its gradient function returns raw: raw
\* clipped, then transformed by the scheme.
AppliedGradient(s, raw) ==
    scheme_specific_gradient(s, clip_gradient(raw, s.clip_by_value_threshold,
                                              s.clip_by_l2_norm_threshold))
\* sign * learning_rate for the optimization_type the optimizer was constructed with.
SignTimes(optimization_type, learning_rate) ==
    IF optimization_type = "min" THEN FNeg(learning_rate) ELSE learning_rate
\* C4: a step that updates sets the parameters to params + sign * learning_rate * g,
\* g the clipped and transformed gradient, learning_rate the rate after this
\* step's decay, sign -1 for "min" and +1 for "max"; construction with any other
\* optimization_type fails.
C4_UpdateRule ==
    /\ [](\A o \in Ids :
             (ctor[o].raised = "none") <=> (ctor[o].optimization_type \in {"min", "max"}))
    /\ [][\A o \in Ids :
             (StepReturned(o)' \/ StepRaisedNaN(o)') =>
                 /\ opt'[o].current_gradient_value = AppliedGradient(opt[o], last'.gradient)
                 /\ opt'[o].learning_rate =
                        (IF opt[o].learning_rate_decay = "None" THEN opt[o].learning_rate
                         ELSE learning_rate_decay(opt[o].learning_rate_decay,
                                                  opt[o].learning_rate,
                                                  opt[o].current_variational_parameters,
                                                  last'.gradient))
                 /\ opt'[o].current_variational_parameters =
                        VAdd(opt[o].current_variational_parameters,
                             VScale(SignTimes(ctor[o].optimization_type,
                                              opt'[o].learning_rate),
                                    opt'[o].current_gradient_value))]_vars
\* C4: a minimizing step with a decayed rate and a clipped-away part has moved the
\* parameters.
C4_Witness ==
    /\ StepReturned("A") /\ ctor["A"].optimization_type = "min"
    /\ opt["A"].learning_rate_decay = "halve"
    /\ opt["A"].learning_rate # origin["A"].learning_rate
    /\ opt["A"].current_gradient_value # last.gradient
    /\ opt["A"].current_variational_parameters # origin["A"].current_variational_parameters

\* C5: a step whose update leaves a NaN in the parameters fails with the error in
\* that same step, returns nothing and does not set done; no step returns
\* parameters that hold a NaN.
C5_NaNRaisesAtOnce ==
    [][\A o \in Ids :
          StepRequested(o)' =>
              /\ (AnyNaN(opt'[o].current_variational_parameters) /\ ~opt[o].done) =>
                     /\ last'.outcome = "ValueError"
                     /\ last'.value = NoArray
                     /\ opt'[o].done = opt[o].done
              /\ last'.outcome = "ValueError" =>
                     AnyNaN(opt'[o].current_variational_parameters)]_vars
\* C5: a step failed on parameters that the step before had returned without NaN.
C5_Witness ==
    /\ last.op = "next" /\ last.outcome = "ValueError" /\ ~opt["A"].done
    /\ AnyNaN(opt["A"].current_variational_parameters)
    /\ ~AnyNaN(origin["A"].current_variational_parameters)

\* C6: run_optimization called at iteration 0 with max_iteration >= 1 makes at most
\* max_iteration steps: inside the call iteration never exceeds max_iteration, done
\* is true once it reaches max_iteration, and the loop step taken with done true
\* ends the call; when the call returns, done is true and the value returned is
\* the current parameter vector.
C6_RunTerminates ==
    /\ [](\A o \in Ids :
             /\ (run.start = 0 /\ opt[o].max_iteration >= 1
                     /\ last.who = o /\ last.op = "run_optimization") =>
                    /\ opt[o].iteration <= opt[o].max_iteration
                    /\ (opt[o].iteration = opt[o].max_iteration
                            /\ last.outcome = "looping") => opt[o].done
             /\ (last.who = o /\ last.op = "run_optimization"
                     /\ last.outcome = "returned") =>
                    /\ run.who = "none"
                    /\ opt[o].done
                    /\ last.value = opt[o].current_variational_parameters)
    /\ [][\A o \in Ids :
             (run.who = o /\ opt[o].done) =>
                 (run'.who = "none" /\ last'.outcome = "returned")]_vars
\* C6: run_optimization returned after max_iteration = 2 steps from iteration 0.
C6_Witness ==
    /\ last.op = "run_optimization" /\ last.outcome = "returned" /\ run.start = 0
    /\ opt["A"].max_iteration = 2 /\ opt["A"].iteration = 2
    /\ last.value # origin["A"].current_variational_parameters

\* C10: iteration starts at 0 and never decreases; it grows by exactly 1 in every
\* operation that updates the parameters (a step of next or run_optimization that
\* returns or fails on NaN, a do_single_iteration that returns) and is unchanged by
\* a step request that signals end-of-sequence and by every other operation.
C10_IterationCounts ==
    /\ (\A o \in Ids : opt[o].iteration = 0)
    /\ [][\A o \in Ids :
             /\ opt'[o].iteration >= opt[o].iteration
             /\ (StepReturned(o)' \/ StepRaisedNaN(o)'
                     \/ (last'.who = o /\ last'.op = "do_single_iteration"
                             /\ last'.outcome = "returned")) =>
                    opt'[o].iteration = opt[o].iteration + 1
             /\ StepStopped(o)' => opt'[o].iteration = opt[o].iteration]_vars
\* C10: end-of-sequence was signalled after max_iteration = 2 counted updates.
C10_Witness ==
    /\ last.op = "next" /\ last.outcome = "StopIteration"
    /\ opt["A"].iteration = 2 /\ opt["A"].max_iteration = 2
    /\ opt["A"].rel_l1_change_threshold < 0

\* The magnitude of a component as the clipping sees it (NaN counts as 0, an
\* infinity as the largest float).
Magnitude(x) == FAbs(NanToNum1(x))
\* No component of the clipped vector is larger in magnitude than it was.
NoComponentGrows(g, clipped) ==
    /\ Len(clipped) = Len(g)
    /\ \A i \in 1..Len(g) : Magnitude(clipped[i]) <= Magnitude(g[i])
\* C7, as claimed: for every pair of thresholds clip_gradient returns a vector
\* with no component larger in magnitude than the input's and with an L2 norm at
\* most clip_by_l2_norm_threshold when that threshold is finite.
C7_Original ==
    \A o \in Ids :
        (last.op = "clip_gradient" /\ last.who = o) =>
            /\ NoComponentGrows(last.gradient, last.value)
            /\ IsFinite(opt[o].clip_by_l2_norm_threshold) =>
                   FLe(l2_norm(last.value, FALSE), opt[o].clip_by_l2_norm_threshold)
\* The rounding of the rescaling in clip_by_l2_norm, in units of 1/Scale.
NormTolerance == 2
\* C7, amended: for thresholds that are not negative, clip_gradient returns a
\* vector with no component larger in magnitude than the input's or than
\* clip_by_value_threshold, and with an L2 norm at most clip_by_l2_norm_threshold,
\* up to the rounding of the rescaling, when that threshold is finite; with a
\* negative clip_by_value_threshold and no norm clipping every component of the
\* result is that threshold, whatever the gradient.
C7_ClipWithinThresholds ==
    \A o \in Ids :
        /\ (last.op = "clip_gradient" /\ last.who = o
                /\ opt[o].clip_by_value_threshold < 0
                /\ opt[o].clip_by_l2_norm_threshold = PInf) =>
               \A i \in 1..Len(last.value) :
                   last.value[i] = opt[o].clip_by_value_threshold
        /\ (last.op = "clip_gradient" /\ last.who = o
             /\ opt[o].clip_by_l2_norm_threshold >= 0
             /\ opt[o].clip_by_value_threshold >= 0) =>
            /\ NoComponentGrows(last.gradient, last.value)
            /\ \A i \in 1..Len(last.value) :
                   Magnitude(last.value[i]) <= opt[o].clip_by_value_threshold
            /\ IsFinite(opt[o].clip_by_l2_norm_threshold) =>
                   FLe(l2_norm(last.value, FALSE),
                       opt[o].clip_by_l2_norm_threshold + NormTolerance)
\* C7: a gradient was clipped by value and then rescaled to the norm threshold.
C7_Witness ==
    /\ last.op = "clip_gradient"
    /\ opt["A"].clip_by_l2_norm_threshold = Scale
    /\ opt["A"].clip_by_value_threshold = 2 * Scale
    /\ last.gradient = <<7 * Scale, 0 - (11 * Scale)>>
    /\ last.value # clip_by_value(last.gradient, 2 * Scale)
    /\ last.value # nan_to_num(last.gradient)

\* The state k steps of next() alone lead to from s, the gradient function being
\* deterministic.
RECURSIVE Replay(_, _)
Replay(s, k) ==
    IF k <= 0 THEN s
    ELSE Replay(next(s, CHOOSE g \in GradientCall(s) : TRUE).s, k - 1)
\* C8: in every interleaving of the steps of two optimizers each is in the state
\* that the same number of its own steps alone lead to from its set-up, whatever
\* loops (iter, next, run_optimization) the steps were taken in; an operation on
\* one optimizer changes no field of the other, and iter() changes nothing.
C8_StepsAreIndependent ==
    /\ [](\A o \in Ids :
             opt[o] = Replay(origin[o], opt[o].iteration - origin[o].iteration))
    /\ [][/\ \A o \in Ids : last'.who # o => opt'[o] = opt[o]
          /\ last'.op = "iter" => opt' = opt]_vars
\* C8: B has stepped after A stepped twice, and both moved.
C8_Witness ==
    /\ last.op = "next" /\ last.who = "B" /\ last.outcome = "returned"
    /\ opt["A"].iteration = 2 /\ opt["B"].iteration = 1
    /\ opt["A"].current_variational_parameters # origin["A"].current_variational_parameters
    /\ opt["B"].current_variational_parameters # origin["B"].current_variational_parameters

\* |x| < 1e-3 for the parameter vector <<x>>.
NearMinimum(p) == Len(p) = 1 /\ FAbs(p[1]) < Lit(1, 1000)
BelowStepChange(s) ==
    \/ s.rel_l1_change_threshold < Lit(3, 20)
    \/ s.rel_l2_change_threshold < Lit(3, 20)
C11_Original ==
    [][\A o \in Ids :
          opt[o].current_variational_parameters # NoArray =>
              Len(opt'[o].current_variational_parameters) =
                  Len(opt[o].current_variational_parameters)]_vars

\* C19: in a step that updates, the gradient function is called on the pre-update
\* parameters; the decay policy, if configured, gets the old learning rate, the
\* pre-update parameters and the raw gradient (without one the learning rate is
\* unchanged); the gradient is clipped by value, then by L2 norm, then transformed
\* by the scheme and stored as current_gradient_value; the parameters are updated
\* with the decayed rate and the stored gradient; iteration is incremented; the
\* relative changes are those between pre-update and post-update parameters; the
\* convergence check reads the new relative changes and the new iteration.
C19_SubStepOrder ==
    [][\A o \in Ids :
          (StepReturned(o)' \/ StepRaisedNaN(o)') =>
              /\ last'.gradient \in
                     GradientResults(opt[o].gradient, opt[o].current_variational_parameters)
              /\ last'.called =
                     (IF opt[o].learning_rate_decay = "None" THEN {"gradient"}
                      ELSE {"gradient", "decay"})
              /\ opt'[o].learning_rate =
                     (IF opt[o].learning_rate_decay = "None" THEN opt[o].learning_rate
                      ELSE learning_rate_decay(opt[o].learning_rate_decay,
                                               opt[o].learning_rate,
                                               opt[o].current_variational_parameters,
                                               last'.gradient))
              /\ opt'[o].current_gradient_value =
                     scheme_specific_gradient(
                         opt[o],
                         clip_by_l2_norm(clip_by_value(last'.gradient,
                                                       opt[o].clip_by_value_threshold),
                                         opt[o].clip_by_l2_norm_threshold))
              /\ opt'[o].current_variational_parameters =
                     VAdd(opt[o].current_variational_parameters,
                          VScale(SignTimes(ctor[o].optimization_type, opt'[o].learning_rate),
                                 opt'[o].current_gradient_value))
              /\ opt'[o].iteration = opt[o].iteration + 1
              /\ opt'[o].rel_l1_change =
                     relative_change_l1(opt[o].current_variational_parameters,
                                        opt'[o].current_variational_parameters)
              /\ opt'[o].rel_l2_change =
                     relative_change_l2(opt[o].current_variational_parameters,
                                        opt'[o].current_variational_parameters)
              /\ StepReturned(o)' => opt'[o].done = Converged(opt'[o])]_vars
\* C19: a step whose decay halved the rate on the raw gradient, whose clipping by
\* value and by norm both changed the gradient, and whose scheme changed it again.
C19_Witness ==
    /\ StepReturned("A") /\ opt["A"].learning_rate_decay = "dynamic"
    /\ opt["A"].scheme = "momentum"
    /\ opt["A"].learning_rate # origin["A"].learning_rate
    /\ clip_by_value(last.gradient, opt["A"].clip_by_value_threshold) # last.gradient
    /\ clip_gradient(last.gradient, opt["A"].clip_by_value_threshold,
                     opt["A"].clip_by_l2_norm_threshold)
           # clip_by_value(last.gradient, opt["A"].clip_by_value_threshold)
    /\ opt["A"].current_gradient_value
           # clip_gradient(last.gradient, opt["A"].clip_by_value_threshold,
                           opt["A"].clip_by_l2_norm_threshold)
    /\ ~FGt(l1_norm(opt["A"].current_gradient_value, FALSE),
            l1_norm(origin["A"].current_variational_parameters, FALSE))

\* The last operation was get_hf_training_data.
TrainingDataRequested == bmfmc'.op = "get_hf_training_data"

HfModelInvoked(w) == \E k \in 1..Len(w.log) : w.log[k][1] = "high_fidelity_model.evaluate"

HfModelConfigured(w) == w.m.high_fidelity_model # "None"

ReferenceLoaded(w) == w.m.Y_HF_mc # NoArray

\* C13, as claimed: get_hf_training_data invokes the high-fidelity model exactly
\* when a model is configured and no reference data are loaded, takes Y_HF_train
\* from the reference data exactly when they are loaded and no model is
\* configured, and with both or neither fails without invoking the model and
\* without changing Y_HF_train.
C13_Original ==
    [][TrainingDataRequested =>
          /\ HfModelInvoked(bmfmc'.w) <=>
                 (HfModelConfigured(bmfmc.w) /\ ~ReferenceLoaded(bmfmc.w))
          /\ (HfModelConfigured(bmfmc.w) <=> ReferenceLoaded(bmfmc.w)) =>
                 /\ bmfmc'.raised # "none"
                 /\ ~HfModelInvoked(bmfmc'.w)
                 /\ bmfmc'.w.m.Y_HF_train = bmfmc.w.m.Y_HF_train]_vars
\* C13, amended: without training inputs (X_train is None) get_hf_training_data
\* fails before it looks at either source: no model is invoked and Y_HF_train
\* is unchanged.  With training inputs it invokes the high-fidelity model
\* exactly when a model is configured and no reference data are loaded, once,
\* for X_train, and stores a response; it reads Y_HF_train from
\* the reference data, without invoking the model, exactly when reference data
\* are loaded and no model is configured; with both or neither it fails without
\* invoking the model and without changing Y_HF_train.
C13_OneSourceGivenTrainingInputs ==
    [][TrainingDataRequested =>
          /\ bmfmc.w.m.X_train = NoArray =>
                 /\ bmfmc'.raised = "ValueError"
                 /\ ~HfModelInvoked(bmfmc'.w)
                 /\ bmfmc'.w.m = bmfmc.w.m
          /\ bmfmc.w.m.X_train # NoArray =>
                 /\ HfModelInvoked(bmfmc'.w) <=>
                        (HfModelConfigured(bmfmc.w) /\ ~ReferenceLoaded(bmfmc.w))
                 /\ HfModelInvoked(bmfmc'.w) =>
                        /\ bmfmc'.raised = "none"
                        /\ bmfmc'.w.log = <<<<"get_hf_training_data">>,
                                            <<"high_fidelity_model.evaluate", bmfmc.w.m.X_train>>>>
                        /\ bmfmc'.w.m.Y_HF_train # NoArray
                 /\ (ReferenceLoaded(bmfmc.w) /\ ~HfModelConfigured(bmfmc.w)
                         /\ bmfmc'.raised = "none") =>
                        \A i \in 1..Len(bmfmc.w.m.X_train) :
                            \E j \in 1..Len(bmfmc.w.m.X_mc) :
                                /\ bmfmc.w.m.X_mc[j] = bmfmc.w.m.X_train[i]
                                /\ bmfmc'.w.m.Y_HF_train[i] = <<bmfmc.w.m.Y_HF_mc[j]>>
                 /\ (HfModelConfigured(bmfmc.w) <=> ReferenceLoaded(bmfmc.w)) =>
                        /\ bmfmc'.raised = "RuntimeError"
                        /\ ~HfModelInvoked(bmfmc'.w)
                        /\ bmfmc'.w.m = bmfmc.w.m]_vars
\* C13: the model was invoked for the training inputs, none of the reference
\* data being loaded.
C13_Witness ==
    /\ bmfmc.op = "get_hf_training_data" /\ bmfmc.raised = "none"
    /\ HfModelInvoked(bmfmc.w) /\ ~ReferenceLoaded(bmfmc.w)
    /\ bmfmc.w.m.Y_HF_train # NoArray

\* get_hf_training_data is called with training inputs and reference data only.
FromReferenceData ==
    /\ TrainingDataRequested
    /\ bmfmc.w.m.X_train # NoArray
    /\ ReferenceLoaded(bmfmc.w) /\ ~HfModelConfigured(bmfmc.w)

RowIsMatched(w, i) == \E j \in 1..Len(w.m.X_mc) : w.m.X_mc[j] = w.m.X_train[i]

\* C18: with reference data, Y_HF_train has one value per training row, in the
\* order of X_train; the value for row i is Y_HF_mc[j] for the first j whose row
\* X_mc[j] equals X_train[i] in every column; a training row that equals no row
\* of X_mc makes the operation fail (IndexError) and no value is stored.
C18_FirstMatchingRow ==
    [][FromReferenceData =>
          /\ (\A i \in 1..Len(bmfmc.w.m.X_train) : RowIsMatched(bmfmc.w, i)) =>
                /\ bmfmc'.raised = "none"
                /\ Len(bmfmc'.w.m.Y_HF_train) = Len(bmfmc.w.m.X_train)
                /\ \A i \in 1..Len(bmfmc.w.m.X_train) :
                      \E j \in 1..Len(bmfmc.w.m.X_mc) :
                          /\ \A c \in 1..Len(bmfmc.w.m.X_train[i]) :
                                 bmfmc.w.m.X_mc[j][c] = bmfmc.w.m.X_train[i][c]
                          /\ \A k \in 1..(j - 1) : bmfmc.w.m.X_mc[k] # bmfmc.w.m.X_train[i]
                          /\ bmfmc'.w.m.Y_HF_train[i] = <<bmfmc.w.m.Y_HF_mc[j]>>
          /\ (\E i \in 1..Len(bmfmc.w.m.X_train) : ~RowIsMatched(bmfmc.w, i)) =>
                /\ bmfmc'.raised = "IndexError"
                /\ bmfmc'.w.m.Y_HF_train = bmfmc.w.m.Y_HF_train]_vars
\* C18: two training rows, given in another order than in X_mc, the second of
\* them equal to two rows of X_mc with different reference outputs.
C18_Witness ==
    /\ bmfmc.op = "get_hf_training_data" /\ bmfmc.raised = "none"
    /\ ~HfModelInvoked(bmfmc.w)
    /\ bmfmc.w.m.X_train = <<<<3, 4>>, <<1, 2>>>>
    /\ bmfmc.w.m.Y_HF_train = <<<<200>>, <<100>>>>

\* The last operation ran compute_pyhf_statistics (by itself or as the last
\* phase of a run) and returned.
StatisticsComputed(b) ==
    /\ b.raised = "none"
    /\ \E k \in 1..Len(b.w.log) : b.w.log[k] = <<"compute_pyhf_statistics">>

CovarianceRequested(w) ==
    \E k \in 1..Len(w.log) :
        w.log[k][1] = "interface.evaluate" /\ w.log[k][3] = "covariance"

\* C14: after compute_pyhf_statistics p_yhf_mean is computed anew from the
\* current predictions and has one entry per support point; with predictive_var
\* false p_yhf_var is None, whatever it was before, and the posterior covariance
\* was not requested from the collaborator; the covariance is requested, and
\* p_yhf_var computed, only with predictive_var true.
C14_StatisticsFollowFlag ==
    [][StatisticsComputed(bmfmc') =>
          /\ Len(bmfmc'.w.m.p_yhf_mean) = Len(bmfmc'.w.m.y_pdf_support)
          /\ \A s \in 1..Len(bmfmc'.w.m.y_pdf_support) :
                 bmfmc'.w.m.p_yhf_mean[s] =
                     MeanOfNormalPdfs(bmfmc'.w.m.y_pdf_support[s],
                                      bmfmc'.w.m.m_f_mc, bmfmc'.w.m.var_y_mc)
          /\ ~bmfmc'.w.m.predictive_var_bool =>
                 bmfmc'.w.m.p_yhf_var = NoArray /\ ~CovarianceRequested(bmfmc'.w)
          /\ CovarianceRequested(bmfmc'.w) => bmfmc'.w.m.predictive_var_bool
          /\ bmfmc'.w.m.p_yhf_var # NoArray => bmfmc'.w.m.predictive_var_bool]_vars
\* C14: compute_pyhf_statistics with predictive_var false discarded the variance
\* that an earlier run had computed.
C14_Witness ==
    /\ bmfmc.op = "compute_pyhf_statistics" /\ StatisticsComputed(bmfmc)
    /\ ~bmfmc.w.m.predictive_var_bool
    /\ bmfmc.before.p_yhf_var # NoArray
    /\ bmfmc.w.m.p_yhf_var = NoArray
    /\ Len(bmfmc.w.m.p_yhf_mean) = 2

UnknownFeaturesConfig(w) ==
    w.m.settings_probab_mapping.features_config
        \notin {"man_features", "opt_features", "no_features"}

TooFewFeatures(w) ==
    /\ w.m.settings_probab_mapping.features_config = "opt_features"
    /\ w.m.settings_probab_mapping.num_features < 1

\* C16: set_feature_strategy fails with an error for an unknown features_config
\* (IOError) and for opt_features with num_features < 1 (ValueError); the call
\* changes neither Z_train nor Z_mc nor the trained state of the collaborator,
\* and calls no collaborator.
C16_InvalidConfigurationRejected ==
    [][(bmfmc'.op = "set_feature_strategy"
            /\ (UnknownFeaturesConfig(bmfmc.w) \/ TooFewFeatures(bmfmc.w))) =>
          /\ bmfmc'.raised = (IF TooFewFeatures(bmfmc.w) THEN "ValueError" ELSE "IOError")
          /\ bmfmc'.w.m.Z_train = bmfmc.w.m.Z_train
          /\ bmfmc'.w.m.Z_mc = bmfmc.w.m.Z_mc
          /\ bmfmc'.w.interface = bmfmc.w.interface
          /\ bmfmc'.w.log = <<>>]_vars
\* C16: opt_features with num_features = 0 was rejected on a model whose
\* collaborator an earlier run without features had trained.
C16_Witness ==
    /\ bmfmc.op = "set_feature_strategy" /\ bmfmc.raised = "ValueError"
    /\ TooFewFeatures(bmfmc.w)
    /\ bmfmc.w.interface # NoArray
    /\ bmfmc.w.m.Z_train = NoArray /\ bmfmc.w.m.Z_mc = NoArray

\* The columns of row that the selection X_cols names, in its order.
SelectedOf(row, idx) ==
    IF idx.kind = "int" THEN <<row[idx.col]>>
    ELSE [k \in 1..Len(idx.cols) |-> row[idx.cols[k]]]

\* One row per row of Y: the low-fidelity outputs followed by the selected
\* columns of the same row of X.
OutputsThenSelection(Y, X, idx) == [i \in 1..Len(X) |-> Y[i] \o SelectedOf(X[i], idx)]

\* C15, as claimed: with no_features, set_feature_strategy makes Z_train equal
\* to Y_LFs_train and Z_mc equal to Y_LFs_mc; with man_features and any
\* non-empty selection X_cols, Z_mc has one row per Monte-Carlo sample, made of
\* the low-fidelity outputs followed by the selected columns of X_mc, and
\* Z_train is made likewise of Y_LFs_train and X_train.
C15_Original ==
    [][bmfmc'.op = "set_feature_strategy" =>
          /\ bmfmc.w.m.settings_probab_mapping.features_config = "no_features" =>
                /\ bmfmc'.w.m.Z_train = bmfmc.w.m.Y_LFs_train
                /\ bmfmc'.w.m.Z_mc = bmfmc.w.m.Y_LFs_mc
          /\ (bmfmc.w.m.settings_probab_mapping.features_config = "man_features"
                  /\ bmfmc.w.m.X_train # NoArray) =>
                /\ Len(bmfmc'.w.m.Z_mc) = Len(bmfmc.w.m.X_mc)
                /\ bmfmc'.w.m.Z_mc =
                       OutputsThenSelection(bmfmc.w.m.Y_LFs_mc, bmfmc.w.m.X_mc,
                                            bmfmc.w.m.settings_probab_mapping.X_cols)
                /\ bmfmc'.w.m.Z_train =
                       OutputsThenSelection(bmfmc.w.m.Y_LFs_train, bmfmc.w.m.X_train,
                                            bmfmc.w.m.settings_probab_mapping.X_cols)]_vars

\* The last operation is evaluate(), run_BMFMC() or run_BMFMC_without_features().
IsRun(b) == b.op \in {"evaluate", "run_BMFMC", "run_BMFMC_without_features"}

IsResolve(event) == event[1] = "get_hf_training_data"

IsTrain(event) == event[1] = "interface.build_approximation"

IsPredict(event) == event[1] = "interface.evaluate" /\ event[3] = "variance"

IsCovariance(event) == event[1] = "interface.evaluate" /\ event[3] = "covariance"

IsStatistics(event) == event[1] = "compute_pyhf_statistics"

\* A run begins where get_hf_training_data is entered: the position in the log
\* at which the run of position k began (0: before any run).
RunStart(log, k) == Max({0} \cup {j \in 1..k : IsResolve(log[j])})

\* The phase an entry of the log belongs to.
Phase(event) ==
    IF IsResolve(event) \/ event[1] = "high_fidelity_model.evaluate" THEN 1
    ELSE IF IsTrain(event) THEN 2
    ELSE IF IsPredict(event) THEN 3
    ELSE 4

\* Within one run the phases never go back.
OneWay(log) ==
    \A j, k \in 1..Len(log) :
        (j < k /\ RunStart(log, j) = RunStart(log, k)) => Phase(log[j]) <= Phase(log[k])

TrainedBeforeEvaluated(log) ==
    \A k \in 1..Len(log) :
        (IsPredict(log[k]) \/ IsCovariance(log[k])) =>
            \E j \in (RunStart(log, k) + 1)..(k - 1) : IsTrain(log[j])

ResolvedBeforeTrained(log) ==
    \A k \in 1..Len(log) : IsTrain(log[k]) => RunStart(log, k) > 0

\* The statistics of a run follow a prediction, in that run, for the features
\* of all Monte-Carlo samples: Z_mc, or Y_LFs_mc in the run without features.
PredictedBeforeStatistics(w) ==
    \A k \in 1..Len(w.log) :
        IsStatistics(w.log[k]) =>
            \E j \in (RunStart(w.log, k) + 1)..(k - 1) :
                /\ IsPredict(w.log[j])
                /\ w.log[j][2] \in {w.m.Z_mc, w.m.Y_LFs_mc}
                /\ Len(w.log[j][2]) = Len(w.m.X_mc)

\* The kinds of the entries of one run, from position k of the log on.
RECURSIVE RunKinds(_, _)
RunKinds(log, k) ==
    IF k > Len(log) \/ IsResolve(log[k]) THEN <<>>
    ELSE <<IF IsCovariance(log[k]) THEN "covariance" ELSE log[k][1]>> \o RunKinds(log, k + 1)

IsPrefix(s, full) == Len(s) <= Len(full) /\ s = SubSeq(full, 1, Len(s))

\* A run in full: the high-fidelity model if it is the source, with opt_features
\* the training and the two predictions of the feature strategy, then training,
\* prediction for the Monte-Carlo and for the training features, statistics, and
\* the posterior covariance if the predictive variance is computed.
FullRun(w, with_features) ==
    (IF HfModelConfigured(w) THEN <<"high_fidelity_model.evaluate">> ELSE <<>>)
    \o (IF with_features /\ w.m.settings_probab_mapping.features_config = "opt_features"
        THEN <<"interface.build_approximation", "interface.evaluate", "interface.evaluate">>
        ELSE <<>>)
    \o <<"interface.build_approximation", "interface.evaluate", "interface.evaluate",
         "compute_pyhf_statistics">>
    \o (IF w.m.predictive_var_bool THEN <<"covariance">> ELSE <<>>)

\* C12, as claimed: in every evaluate(), run_BMFMC() and
\* run_BMFMC_without_features() the phases of a run follow one another in one
\* direction only: high-fidelity training data resolved, collaborator trained,
\* collaborator evaluated, statistics computed; the collaborator is not
\* evaluated before it was trained in that run and the statistics are not
\* computed before the collaborator was evaluated for the Monte-Carlo features.
C12_Original ==
    IsRun(bmfmc) =>
        /\ OneWay(bmfmc.w.log)
        /\ ResolvedBeforeTrained(bmfmc.w.log)
        /\ TrainedBeforeEvaluated(bmfmc.w.log)
        /\ PredictedBeforeStatistics(bmfmc.w)
\* C12, amended: every run starts by resolving the high-fidelity training data;
\* the collaborator is trained only after that, evaluated only after it was
\* trained in that run, and the statistics are computed only after it was
\* evaluated for the Monte-Carlo features of that run.  The phases go one way
\* except with opt_features: there the feature strategy trains the collaborator
\* and evaluates it twice before the run trains it again, so that one training
\* follows evaluations.  A run that completes is exactly: [high-fidelity model],
\* [train, evaluate, evaluate with opt_features], train, evaluate, evaluate,
\* statistics, [posterior covariance with predictive_var]; a run that fails is a
\* beginning of it.
C12_PhaseOrder ==
    IsRun(bmfmc) =>
        /\ ResolvedBeforeTrained(bmfmc.w.log)
        /\ TrainedBeforeEvaluated(bmfmc.w.log)
        /\ PredictedBeforeStatistics(bmfmc.w)
        /\ bmfmc.w.m.settings_probab_mapping.features_config # "opt_features" =>
               OneWay(bmfmc.w.log)
        /\ Len(bmfmc.w.log) > 0 => IsResolve(bmfmc.w.log[1])
        /\ \A k \in 1..Len(bmfmc.w.log) :
               IsResolve(bmfmc.w.log[k]) =>
                   \E with_features \in BOOLEAN :
                       IsPrefix(RunKinds(bmfmc.w.log, k + 1), FullRun(bmfmc.w, with_features))
        /\ bmfmc.raised = "none" =>
               \E k \in 1..Len(bmfmc.w.log) :
                   /\ IsResolve(bmfmc.w.log[k])
                   /\ RunKinds(bmfmc.w.log, k + 1) =
                          FullRun(bmfmc.w, bmfmc.op # "run_BMFMC_without_features")
\* C12: evaluate() returned after a run without features and a run with
\* opt_features, both with the predictive variance.
C12_Witness ==
    /\ bmfmc.op = "evaluate" /\ bmfmc.raised = "none"
    /\ bmfmc.w.m.no_features_comparison_bool
    /\ bmfmc.w.m.settings_probab_mapping.features_config = "opt_features"
    /\ CovarianceRequested(bmfmc.w)
    /\ Len(bmfmc.w.log) >= 12

VarianceCalculated == bmfmc.op = "_calculate_p_yhf_var"

\* C17: a pair with a negative determinant does not make the computation fail:
\* the covariance used is 0.95 times the entry read (19 units of 1/40 for every
\* unit of 1/2),
\* the exponent argument is 5.07 - 0.5 * 1e6 * form capped at 40 (the determinant
\* being 1e-6), and the contribution at every support point is finite,
\* non-negative and at most exp(40): exp of a finite argument <= 40, or 0.
C17_NegativeDeterminantIsRegularized ==
    VarianceCalculated =>
        \A p \in 1..Len(bmfmc.terms) :
            DetSigma(bmfmc.terms[p]) < 0 =>
                /\ CovarianceUsed(bmfmc.terms[p]) = 19 * bmfmc.terms[p].covariance
                /\ \A s \in 1..Len(bmfmc.y_pdf_support) :
                      /\ bmfmc.p_yhf_var[s].grid[p].is \in {"exp", "zero"}
                      /\ bmfmc.p_yhf_var[s].grid[p].arg <= 4000
                      /\ bmfmc.p_yhf_var[s].grid[p] =
                             Exp(IF 507 - 312500 * QuadraticForm(bmfmc.terms[p],
                                                                 bmfmc.y_pdf_support[s]) > 4000
                                 THEN Fin(4000)
                                 ELSE Fin(507 - 312500 * QuadraticForm(bmfmc.terms[p],
                                                                       bmfmc.y_pdf_support[s])))
\* C17: variances 1 and 1 with covariance 1.5; at one support point the exponent
\* argument was capped at 40, at another the contribution underflowed to 0.
C17_Witness ==
    /\ VarianceCalculated
    /\ \E p \in 1..Len(bmfmc.terms) :
          /\ bmfmc.terms[p].var1 = 2 /\ bmfmc.terms[p].var2 = 2
          /\ bmfmc.terms[p].covariance = 3
          /\ \E s \in 1..Len(bmfmc.y_pdf_support) :
                 bmfmc.p_yhf_var[s].grid[p] = [is |-> "exp", arg |-> 4000]
          /\ \E s \in 1..Len(bmfmc.y_pdf_support) :
                 bmfmc.p_yhf_var[s].grid[p].is = "zero"

\* C20, as claimed: over n points the computation adds exactly one contribution
\* for every unordered pair (i, j), i < j: n (n - 1) / 2 contributions, no pair
\* twice, none of a point with itself; the contribution of the pair (i, j) is
\* computed from the means and the variances of i and j and from entry
\* k_post[i][j] of the posterior covariance.
C20_Original ==
    (VarianceCalculated /\ Len(bmfmc.m_f_mc) >= 2) =>
        /\ 2 * Len(bmfmc.terms) = Len(bmfmc.m_f_mc) * (Len(bmfmc.m_f_mc) - 1)
        /\ \A i, j \in 1..Len(bmfmc.m_f_mc) :
              i < j =>
                  \E p \in 1..Len(bmfmc.pairs) :
                      /\ bmfmc.pairs[p].first = i /\ bmfmc.pairs[p].second = j
                      /\ \A q \in 1..Len(bmfmc.pairs) :
                             (bmfmc.pairs[q].first = i /\ bmfmc.pairs[q].second = j) => q = p
                      /\ bmfmc.terms[p].mean1 = bmfmc.m_f_mc[i][1]
                      /\ bmfmc.terms[p].mean2 = bmfmc.m_f_mc[j][1]
                      /\ bmfmc.terms[p].var1 = bmfmc.var_y_mc[i][1]
                      /\ bmfmc.terms[p].var2 = bmfmc.var_y_mc[j][1]
                      /\ bmfmc.terms[p].covariance = bmfmc.k_post[i][j]
        /\ \A p \in 1..Len(bmfmc.pairs) : bmfmc.pairs[p].first < bmfmc.pairs[p].second

\* The attributes a full step of s with the gradient g leaves behind, whether
\* the step returns or fails on NaN.
LeftByStep(s, g) ==
    RelChangeFrom(do_single_iteration(
                      Transformed(Decayed(s, g),
                                  clip_gradient(g, s.clip_by_value_threshold,
                                                s.clip_by_l2_norm_threshold)),
                      Transformed(Decayed(s, g),
                                  clip_gradient(g, s.clip_by_value_threshold,
                                                s.clip_by_l2_norm_threshold)).current_gradient_value),
                  s.current_variational_parameters)

\* C27: a step that fails with the NaN error is neither rolled back nor made
\* terminal: the parameters hold the update with its NaN, iteration has grown by
\* one, the relative changes and current_gradient_value are those of the failed
\* step, and done is still false; a step requested next calls the gradient
\* function again, counts another update and does not signal end-of-sequence.
C27_FailedStepIsKept ==
    [][\A o \in Ids :
          /\ StepRaisedNaN(o)' =>
                 /\ ~opt[o].done /\ ~opt'[o].done
                 /\ AnyNaN(opt'[o].current_variational_parameters)
                 /\ opt'[o].current_variational_parameters # opt[o].current_variational_parameters
                        \/ AnyNaN(opt[o].current_variational_parameters)
                 /\ opt'[o].iteration = opt[o].iteration + 1
                 /\ opt'[o] = LeftByStep(opt[o], last'.gradient)
                 /\ opt'[o].rel_l1_change =
                        relative_change_l1(opt[o].current_variational_parameters,
                                           opt'[o].current_variational_parameters)
                 /\ opt'[o].rel_l2_change =
                        relative_change_l2(opt[o].current_variational_parameters,
                                           opt'[o].current_variational_parameters)
          /\ (StepRaisedNaN(o) /\ StepRequested(o)') =>
                 /\ last'.outcome # "StopIteration" /\ last'.outcome # "returned"
                 /\ "gradient" \in last'.called
                 /\ opt'[o].iteration = opt[o].iteration + 1]_vars
\* C27: a step with a zero gradient failed with the NaN error: the NaN was in the
\* parameters that the failed step before it had left, and the step ran in full.
C27_Witness ==
    /\ last.op = "next" /\ last.outcome = "ValueError"
    /\ last.gradient = <<0>> /\ "gradient" \in last.called
    /\ opt["A"].iteration = 3 /\ ~opt["A"].done
    /\ AnyNaN(opt["A"].current_variational_parameters)

\* The last operation on o was a step that ran in full (the gradient function
\* was called).
FullStep(o) == StepRequested(o) /\ "gradient" \in last.called
\* What the update adds to component j of the parameters.
Increment(s, j) == FMul(SignedRate(s), At(s.current_gradient_value, j))
\* A full step with the plain scheme and a finite learning rate whose raw
\* gradient holds a NaN.
NaNGradientStep(o) ==
    /\ FullStep(o)' /\ opt[o].scheme = "identity"
    /\ IsFinite(opt'[o].learning_rate)
    /\ AnyNaN(last'.gradient)

\* C28, as claimed: in a step whose raw gradient holds a NaN (plain scheme,
\* finite learning rate) the gradient applied is 0 in the NaN components, those
\* components of the parameters are unchanged, and the step does not raise the
\* NaN error.
C28_Original ==
    [][\A o \in Ids :
          NaNGradientStep(o) =>
              /\ \A i \in 1..Len(last'.gradient) :
                     IsNaN(last'.gradient[i]) =>
                         /\ opt'[o].current_gradient_value[i] = 0
                         /\ opt'[o].current_variational_parameters[i] =
                                At(opt[o].current_variational_parameters, i)
              /\ last'.outcome # "ValueError"]_vars

\* C28: in a step whose raw gradient holds a NaN (plain scheme, finite learning
\* rate, clipping thresholds that are not negative, infinite ones included) the
\* gradient applied is 0 in the NaN components and finite in all, and the NaN
\* components of the parameters are unchanged; the step raises the NaN error
\* only for another reason: a parameter that was NaN before the step, or an
\* infinite parameter that meets an infinite increment of the opposite sign.
C28_NaNGradientAddsNothing ==
    [][\A o \in Ids :
          NaNGradientStep(o) =>
              /\ \A i \in 1..Len(last'.gradient) :
                     /\ IsFinite(opt'[o].current_gradient_value[i])
                     /\ IsNaN(last'.gradient[i]) =>
                            /\ opt'[o].current_gradient_value[i] = 0
                            /\ opt'[o].current_variational_parameters[i] =
                                   At(opt[o].current_variational_parameters, i)
              /\ StepReturned(o)' \/ StepRaisedNaN(o)'
              /\ StepRaisedNaN(o)' <=>
                     \E j \in 1..Len(opt'[o].current_variational_parameters) :
                         \/ IsNaN(At(opt[o].current_variational_parameters, j))
                         \/ /\ IsInf(At(opt[o].current_variational_parameters, j))
                            /\ Increment(opt'[o], j) =
                                   FNeg(At(opt[o].current_variational_parameters, j))]_vars
\* C28: with both thresholds infinite a step with the gradient (-inf, NaN)
\* returned: the second parameter is the start value, the first one moved.
C28_Witness ==
    /\ last.op = "next" /\ last.outcome = "returned" /\ last.gradient = <<NInf, NaN>>
    /\ opt["A"].clip_by_value_threshold = PInf /\ opt["A"].clip_by_l2_norm_threshold = PInf
    /\ opt["A"].scheme = "identity" /\ opt["A"].iteration = 1
    /\ opt["A"].current_gradient_value[2] = 0
    /\ opt["A"].current_variational_parameters[2] = origin["A"].current_variational_parameters[2]
    /\ opt["A"].current_variational_parameters[1] # origin["A"].current_variational_parameters[1]

\* The number of updates after which a step sets done: max_iteration, but the
\* first step is taken (and counted) before done is first assigned.
UpdatesAllowed(s) == IF s.max_iteration < 1 THEN 1 ELSE s.max_iteration
NoNaNParameters(s) ==
    s.current_variational_parameters = NoArray \/ ~AnyNaN(s.current_variational_parameters)

C23_Original ==
    [][(bmfmc'.op = "build_approximation" /\ bmfmc'.raised # "none"
            /\ (UnknownFeaturesConfig(bmfmc.w) \/ TooFewFeatures(bmfmc.w))) =>
          /\ ~HfModelInvoked(bmfmc'.w)
          /\ \A k \in 1..Len(bmfmc'.w.log) : ~IsTrain(bmfmc'.w.log[k])]_vars

\* The step is a call build_approximation(approx_case=True) that returned.
BuiltWithFeatures ==
    /\ bmfmc'.op = "build_approximation" /\ bmfmc'.raised = "none"
    /\ bmfmc'.w = build_approximation(Ok(Entry), TRUE).w
\* The positions of the trainings of the mapping collaborator in a log.
Trainings(log) == {k \in 1..Len(log) : IsTrain(log[k])}
\* The training of the collaborator on the pair (Z_train, Y_HF_train) of w.
TrainingOnHeld(w) == <<"interface.build_approximation", w.m.Z_train, w.m.Y_HF_train>>

\* C26, as claimed: a call build_approximation(approx_case=True) that returns has
\* trained the mapping collaborator exactly once, on the pair (Z_train,
\* Y_HF_train) that the model holds at the return, whatever the feature policy.
C26_Original ==
    [][BuiltWithFeatures =>
          /\ Cardinality(Trainings(bmfmc'.w.log)) = 1
          /\ \A k \in Trainings(bmfmc'.w.log) :
                 bmfmc'.w.log[k] = TrainingOnHeld(bmfmc'.w)]_vars

\* C26: a call build_approximation(approx_case=True) that returns has trained
\* the mapping collaborator exactly once with no_features and man_features, and
\* exactly twice with opt_features (in update_probabilistic_mapping_with_features,
\* followed by the two predictions of that method, and again at the end of
\* build_approximation); every training is on the pair (Z_train, Y_HF_train)
\* that the model holds at the return, the training is the last call the method
\* makes, and the collaborator is left trained on that pair.
C26_TrainingsPerPolicy ==
    [][BuiltWithFeatures =>
          /\ Cardinality(Trainings(bmfmc'.w.log)) =
                 (IF bmfmc.w.m.settings_probab_mapping.features_config = "opt_features"
                  THEN 2 ELSE 1)
          /\ \A k \in Trainings(bmfmc'.w.log) :
                 bmfmc'.w.log[k] = TrainingOnHeld(bmfmc'.w)
          /\ Len(bmfmc'.w.log) \in Trainings(bmfmc'.w.log)
          /\ bmfmc.w.m.settings_probab_mapping.features_config = "opt_features" =>
                 /\ Len(bmfmc'.w.log) - 3 \in Trainings(bmfmc'.w.log)
                 /\ IsPredict(bmfmc'.w.log[Len(bmfmc'.w.log) - 2])
                 /\ IsPredict(bmfmc'.w.log[Len(bmfmc'.w.log) - 1])
          /\ bmfmc'.w.interface = [X |-> bmfmc'.w.m.Z_train, Y |-> bmfmc'.w.m.Y_HF_train]
          /\ bmfmc'.w.m.Z_train # NoArray]_vars
\* C26: build_approximation returned with opt_features and one feature: two
\* trainings on the two-column Z_train, and the high-fidelity model evaluated.
C26_Witness ==
    /\ bmfmc.op = "build_approximation" /\ bmfmc.raised = "none"
    /\ bmfmc.w.m.settings_probab_mapping.features_config = "opt_features"
    /\ Cardinality(Trainings(bmfmc.w.log)) = 2
    /\ \A k \in Trainings(bmfmc.w.log) : bmfmc.w.log[k] = TrainingOnHeld(bmfmc.w)
    /\ Len(bmfmc.w.m.Z_train[1]) = 2
    /\ HfModelInvoked(bmfmc.w)

\* C25, as claimed: after the statistics were computed with the predictive
\* variance switched on, p_yhf_var is a value computed in that call from the
\* current predictions (one entry per support point, over the pairs of the
\* current Monte-Carlo points), never the initial None, for every number
\* n >= 1 of Monte-Carlo points.
C25_Original ==
    (VarianceCalculated /\ Len(bmfmc.m_f_mc) >= 1) =>
        /\ bmfmc.p_yhf_var # NoArray
        /\ Len(bmfmc.p_yhf_var) = Len(bmfmc.y_pdf_support)
        /\ \A s \in 1..Len(bmfmc.p_yhf_var) :
               bmfmc.p_yhf_var[s] =
                   VarianceAt(PairTerms(bmfmc.m_f_mc, bmfmc.var_y_mc, bmfmc.k_post),
                              bmfmc.y_pdf_support[s], bmfmc.p_yhf_mean[s])

\* C30, as claimed: for every pair the determinant by which the inverse 2x2
\* covariance is divided is strictly positive: var1 * var2 - covariance^2 > 0,
\* or the floor 1e-6 that replaces a negative determinant; hence every
\* contribution is a number (no NaN, no infinity from a division by zero).
C30_Original ==
    VarianceCalculated =>
        \A p \in 1..Len(bmfmc.terms) :
            /\ DetSigma(bmfmc.terms[p]) > 0 \/ Regularized(bmfmc.terms[p])
            /\ \A s \in 1..Len(bmfmc.y_pdf_support) :
                   bmfmc.p_yhf_var[s].grid[p].is \in {"exp", "zero"}

\* The number of pairs whose inner iteration is done when the loop is in its
\* outer iteration `outer` (of n points) with `inner` inner iterations done.
PairsDone(n, outer, inner) ==
    IF outer = 0 THEN 0 ELSE ((outer - 1) * (2 * n - outer)) \div 2 + inner
\* The contributions of the first k pairs of b at support point s.
FirstContributions(b, k, s) ==
    [p \in 1..k |->
        Contribution(PairTerms(b.m_f_mc, b.var_y_mc, b.k_post)[p], b.y_pdf_support[s])]

\* C21: for n >= 2 points, once k >= 1 pairs are accumulated the running value
\* of p_yhf_var is (1/k) * (the sum of the contributions of the first k pairs)
\* - 0.9995 * p_yhf_mean^2 at every support point (the counter i is k + 1); when
\* the loops have ended it is the value that is finalized once over all
\* P = n (n - 1) / 2 pairs, (1/P) * (sum over all pairs) - 0.9995 * p_yhf_mean^2;
\* before the first pair it is not assigned.
C21_RunningValueIsFinalValue ==
    (bmfmc.op \in {"loop", "left"} /\ Len(bmfmc.m_f_mc) >= 2) =>
        /\ bmfmc.i = PairsDone(Len(bmfmc.m_f_mc), bmfmc.outer, bmfmc.inner) + 1
        /\ PairsDone(Len(bmfmc.m_f_mc), bmfmc.outer, bmfmc.inner) = 0 =>
               bmfmc.p_yhf_var = NoArray
        /\ PairsDone(Len(bmfmc.m_f_mc), bmfmc.outer, bmfmc.inner) >= 1 =>
               /\ Len(bmfmc.p_yhf_var) = Len(bmfmc.y_pdf_support)
               /\ \A s \in 1..Len(bmfmc.y_pdf_support) :
                      bmfmc.p_yhf_var[s] =
                          [grid |-> FirstContributions(
                                        bmfmc, PairsDone(Len(bmfmc.m_f_mc), bmfmc.outer,
                                                         bmfmc.inner), s),
                           count |-> PairsDone(Len(bmfmc.m_f_mc), bmfmc.outer, bmfmc.inner),
                           mean |-> bmfmc.p_yhf_mean[s]]
        /\ bmfmc.op = "left" =>
               /\ 2 * PairsDone(Len(bmfmc.m_f_mc), bmfmc.outer, bmfmc.inner) =
                      Len(bmfmc.m_f_mc) * (Len(bmfmc.m_f_mc) - 1)
               /\ \A s \in 1..Len(bmfmc.y_pdf_support) :
                      bmfmc.p_yhf_var[s] =
                          VarianceAt(PairTerms(bmfmc.m_f_mc, bmfmc.var_y_mc, bmfmc.k_post),
                                     bmfmc.y_pdf_support[s], bmfmc.p_yhf_mean[s])
\* C21: the loops over three points have ended: three contributions, divisor 3.
C21_Witness ==
    /\ bmfmc.op = "left" /\ Len(bmfmc.m_f_mc) = 3 /\ bmfmc.i = 4
    /\ \A s \in 1..Len(bmfmc.y_pdf_support) :
           /\ bmfmc.p_yhf_var[s].count = 3
           /\ Len(bmfmc.p_yhf_var[s].grid) = 3
    /\ \E s \in 1..Len(bmfmc.y_pdf_support) :
           bmfmc.p_yhf_var[s].grid[1] # bmfmc.p_yhf_var[s].grid[3]

\* The value of a sum of contributions in exact arithmetic with IEEE's special
\* values: NaN if a term is NaN, else infinite if a term is (all terms are
\* non-negative), else the finite terms, each with the number of times it occurs.
ExactSum(grid) ==
    IF \E p \in 1..Len(grid) : grid[p].is = "nan" THEN [is |-> "nan", terms |-> <<>>]
    ELSE IF \E p \in 1..Len(grid) : grid[p].is = "inf" THEN [is |-> "inf", terms |-> <<>>]
    ELSE [is |-> "sum",
          terms |-> [a \in {grid[p].arg : p \in {q \in 1..Len(grid) : grid[q].is = "exp"}} |->
                        Cardinality({p \in 1..Len(grid) : grid[p] = [is |-> "exp", arg |-> a]})]]

C24_Original ==
    /\ [](bmfmc.op \in {"returned", "raised"} =>
            /\ bmfmc.op = "returned"
            /\ Len(bmfmc.gammas_ext_mc) = Len(bmfmc.columns)
            /\ \A j \in 1..Len(bmfmc.columns) : \E q \in 1..Len(bmfmc.gammas_ext_mc) : bmfmc.gammas_ext_mc[q] = {j})
    /\ [][RankingIteration =>
            /\ bmfmc'.raised = "none"
            /\ Cardinality(bmfmc'.selected) = 1
            /\ \A dim \in bmfmc'.selected : \E q \in 1..Len(bmfmc.x_iter_test) : bmfmc.x_iter_test[q] = dim /\ select_bool(bmfmc)[q]
            /\ Len(bmfmc'.x_iter_test) = Len(bmfmc.x_iter_test) - 1
            /\ \A q \in 1..Len(bmfmc'.x_iter_test) : bmfmc'.x_iter_test[q] \notin bmfmc'.selected]_vars

====
